---- MODULE Spec2Model ----
(***************************************************************************)
(* The plugin registry and hook pipeline (ai_cli/plugins.py) and the        *)
(* plugin manager with its persisted configuration                          *)
(* (ai_cli/plugin_manager.py).                                              *)
(*                                                                          *)
(* A plugin object is a number 1..NumObjs; its name, schema extensions and  *)
(* callbacks are fixed at construction, its configuration is mutable.       *)
(* A Python dict is a function whose domain is the set of its keys          *)
(* (<<>> is the empty dict); an insertion-ordered dict whose order matters  *)
(* (the registry's name index) is a sequence of <<key, value>> pairs.       *)
(***************************************************************************)
EXTENDS Integers, Sequences, FiniteSets, TLC

\* ------------------------------------------------------------------ bounds
\* plugin objects that exist in the process
NumObjs == 3
\* distinct plugin names; object o is named PluginName((o-1) % NumNames + 1),
\* so with NumObjs > NumNames two objects share a name
NumNames == 2
\* priorities are drawn from 0..MaxPriority
MaxPriority == 1
\* PluginRegistry and PluginManager instances constructed in the process, of
\* each class
MaxInstances == 2
\* entries of the plugins directory
MaxFiles == 2
MaxChanges == 2

Objs == 1..NumObjs
Priorities == 0..MaxPriority
\* "no plugin" (Python None) where a plugin object is expected
None == 0

\* ------------------------------------------------------------ dict helpers
EmptyDict == <<>>
\* d[k] = v
DictSet(d, k, v) == [kk \in (DOMAIN d) \cup {k} |-> IF kk = k THEN v ELSE d[kk]]
\* an update that keeps the field specification already present: the earlier
\* registration wins
DictUpdate_KeepFirst(d, e) ==
    [kk \in (DOMAIN d) \cup (DOMAIN e) |-> IF kk \in DOMAIN d THEN d[kk] ELSE e[kk]]

\* d.update(e)
DictUpdate(d, e) ==
    [kk \in (DOMAIN d) \cup (DOMAIN e) |-> IF kk \in DOMAIN e THEN e[kk] ELSE d[kk]]

\* ------------------------------------------------------------- the plugins
PluginName(i) == "p" \o ToString(i)
Names == {PluginName(i) : i \in 1..NumNames}
\* Plugin.get_name()
get_name(o) == PluginName(((o - 1) % NumNames) + 1)

\* Plugin.get_version()
get_version(o) == "v" \o ToString(o)

\* PluginConfig: enabled (default True), priority (default 0)
DefaultConfig == [enabled |-> TRUE, priority |-> 0]
PluginConfigs == [enabled : BOOLEAN, priority : Priorities]

\* Plugin.get_schema_extensions(): the two plugin objects with the highest
\* numbers (they have different names, and the last one shares its name with
\* object 1) declare the field "shared" and a field of their own on the model
\* "GenerateRequest", the last one also "shared" on "AgentConfig"; the others
\* keep the default, no extensions.  A field specification is tagged with the
\* plugin that declared it.
Models == {"AgentConfig", "GenerateRequest", "GenerateResponse"}
OwnField(o) == "f" \o ToString(o)
FieldSpec(o, field) == <<field, o>>
get_schema_extensions_of(o) ==
    LET req == DictSet(DictSet(EmptyDict, "shared", FieldSpec(o, "shared")),
                       OwnField(o), FieldSpec(o, OwnField(o)))
        ext == DictSet(EmptyDict, "GenerateRequest", req)
    IN  IF o = NumObjs
        THEN DictSet(ext, "AgentConfig",
                     DictSet(EmptyDict, "shared", FieldSpec(o, "shared")))
        ELSE IF o = NumObjs - 1 THEN ext
        ELSE EmptyDict

\* The four hook callbacks of plugin o.  Each adds the plugin's own key to the
\* record and overwrites the key "last" with <<callback, plugin>>, so that the
\* result depends on which callback ran on what, and in which order.
Callback(cb, o, record) ==
    DictSet(DictSet(record, OwnField(o), o), "last", <<cb, o>>)
on_agent_init(o, record) == Callback("on_agent_init", o, record)
on_generate_request(o, record) == Callback("on_generate_request", o, record)
on_generate_response(o, record) == Callback("on_generate_response", o, record)
on_chat_message(o, record) == Callback("on_chat_message", o, record)

\* ------------------------------------------------------------ the registry
HookNames == {"agent_init", "generate_request", "generate_response", "chat_message"}
\* hook names a caller may pass: the recognized ones and one that is not
CallableHooks == HookNames \cup {"on_unload"}
\* records a caller may pass
Records == {EmptyDict, DictSet(EmptyDict, "last", <<"caller", None>>)}

\* PluginRegistry.__init__
NewRegistry ==
    [plugins |-> <<>>,
     schema_extensions |-> EmptyDict,
     hooks |-> [h \in HookNames |-> <<>>]]

VARIABLES
    config,          \* config[o]: the live PluginConfig of plugin object o
    registry,        \* the PluginRegistry: _plugins, _schema_extensions, _hooks
    plugin_configs,  \* PluginManager._plugin_configs
    file,            \* the configuration file at config_path
    ret,             \* the last call: operation, arguments, outcome, result
    never,           \* never[o]: the registry the same successful register and
                     \* unregister calls build when those of object o are left out
    globals          \* the module-level _global_registry and _global_manager, the
                     \* instances constructed so far, sys.modules and the plugins
                     \* directory

vars == <<config, registry, plugin_configs, file, ret, never, globals>>

\* ------------------------------------------------- insertion-ordered dicts
\* key in d
HasKey(d, k) == \E i \in DOMAIN d : d[i][1] = k
\* d.get(k), None when absent
OrderedGet(d, k) ==
    IF HasKey(d, k) THEN d[CHOOSE i \in DOMAIN d : d[i][1] = k][2] ELSE None
\* an assignment that puts a new key first
OrderedSet_Front(d, k, v) ==
    IF HasKey(d, k)
    THEN [i \in DOMAIN d |-> IF d[i][1] = k THEN <<k, v>> ELSE d[i]]
    ELSE <<<<k, v>>>> \o d

\* d[k] = v: a new key goes last, an existing key keeps its place
OrderedSet(d, k, v) ==
    IF HasKey(d, k)
    THEN [i \in DOMAIN d |-> IF d[i][1] = k THEN <<k, v>> ELSE d[i]]
    ELSE Append(d, <<k, v>>)
\* d.pop(k)
OrderedPop(d, k) == SelectSeq(d, LAMBDA kv : kv[1] # k)

\* a sort key that is the priority itself: the chain comes out ascending
SortKey_Ascending(entry) == entry[1]

\* an insertion that puts the new entry ahead of the entries of equal key:
\* the sort is not stable
RECURSIVE InsertStable_AheadOfEquals(_, _)
InsertStable_AheadOfEquals(sorted, entry) ==
    IF sorted = <<>> THEN <<entry>>
    ELSE IF entry[1] < Head(sorted)[1]
         THEN <<Head(sorted)>> \o InsertStable_AheadOfEquals(Tail(sorted), entry)
         ELSE <<entry>> \o sorted

\* list.sort(key=lambda x: -x[0]): a stable sort by ascending key, the key of
\* a chain entry <<priority, plugin>> being the negated priority
SortKey(entry) == 0 - entry[1]
RECURSIVE InsertStable(_, _)
InsertStable(sorted, entry) ==
    IF sorted = <<>> THEN <<entry>>
    ELSE IF SortKey(Head(sorted)) <= SortKey(entry)
         THEN <<Head(sorted)>> \o InsertStable(Tail(sorted), entry)
         ELSE <<entry>> \o sorted
RECURSIVE SortChain(_)
SortChain(chain) ==
    IF chain = <<>> THEN <<>>
    ELSE InsertStable(SortChain(SubSeq(chain, 1, Len(chain) - 1)), chain[Len(chain)])

\* the schema-extension merge of register: for each model the plugin extends,
\* create the model's dict if absent and update it with the plugin's fields
MergeExtensions(schema, extensions) ==
    [m \in (DOMAIN schema) \cup (DOMAIN extensions) |->
        IF m \in DOMAIN extensions
        THEN DictUpdate(IF m \in DOMAIN schema THEN schema[m] ELSE EmptyDict,
                        extensions[m])
        ELSE schema[m]]

\* a register without the duplicate-name check: the second plugin replaces the
\* first in the name index and joins the chains
register_NoDuplicateCheck(R, cfg, o) ==
    [raised |-> FALSE,
     registry |->
        [plugins |-> OrderedSet(R.plugins, get_name(o), o),
         schema_extensions |->
            MergeExtensions(R.schema_extensions, get_schema_extensions_of(o)),
         hooks |-> [h \in HookNames |->
                      SortChain(Append(R.hooks[h], <<cfg[o].priority, o>>))]]]

\* a register that tags the chain entries with the default priority
register_TagDefault(R, cfg, o) ==
    LET name == get_name(o)
    IN  IF HasKey(R.plugins, name)
        THEN [raised |-> TRUE, registry |-> R]
        ELSE [raised |-> FALSE,
              registry |->
                [plugins |-> OrderedSet(R.plugins, name, o),
                 schema_extensions |->
                    MergeExtensions(R.schema_extensions, get_schema_extensions_of(o)),
                 hooks |-> [h \in HookNames |->
                              SortChain(Append(R.hooks[h], <<DefaultConfig.priority, o>>))]]]

\* PluginRegistry.register(plugin) on registry R under the live configurations
\* cfg: [raised, registry]
register(R, cfg, o) ==
    LET name == get_name(o)
        priority == cfg[o].priority
    IN  IF HasKey(R.plugins, name)
        THEN [raised |-> TRUE, registry |-> R]
        ELSE [raised |-> FALSE,
              registry |->
                [plugins |-> OrderedSet(R.plugins, name, o),
                 schema_extensions |->
                    MergeExtensions(R.schema_extensions, get_schema_extensions_of(o)),
                 hooks |-> [h \in HookNames |->
                              SortChain(Append(R.hooks[h], <<priority, o>>))]]]

\* an unregister that clears the schema-extension map before it looks the
\* name up
unregister_ForgetSchema(R, plugin_name) ==
    LET cleared == [R EXCEPT !.schema_extensions = EmptyDict]
    IN  IF HasKey(R.plugins, plugin_name)
        THEN LET plugin == OrderedGet(R.plugins, plugin_name)
             IN  [cleared EXCEPT !.plugins = OrderedPop(R.plugins, plugin_name),
                                 !.hooks = [h \in HookNames |->
                                    SelectSeq(R.hooks[h], LAMBDA e : e[2] # plugin)]]
        ELSE cleared

\* an unregister that takes the fields the plugin declared back out of the
\* schema-extension map
unregister_RetractFields(R, plugin_name) ==
    IF HasKey(R.plugins, plugin_name)
    THEN LET plugin == OrderedGet(R.plugins, plugin_name)
             own == get_schema_extensions_of(plugin)
         IN  [R EXCEPT !.plugins = OrderedPop(R.plugins, plugin_name),
                       !.hooks = [h \in HookNames |->
                                    SelectSeq(R.hooks[h], LAMBDA e : e[2] # plugin)],
                       !.schema_extensions =
                          [m \in DOMAIN R.schema_extensions |->
                              IF m \in DOMAIN own
                              THEN [f \in (DOMAIN R.schema_extensions[m]) \ (DOMAIN own[m])
                                       |-> R.schema_extensions[m][f]]
                              ELSE R.schema_extensions[m]]]
    ELSE R

\* an unregister that filters the agent_init chain only
unregister_FirstChain(R, plugin_name) ==
    IF HasKey(R.plugins, plugin_name)
    THEN LET plugin == OrderedGet(R.plugins, plugin_name)
         IN  [R EXCEPT !.plugins = OrderedPop(R.plugins, plugin_name),
                       !.hooks = [h \in HookNames |->
                                    IF h = "agent_init"
                                    THEN SelectSeq(R.hooks[h], LAMBDA e : e[2] # plugin)
                                    ELSE R.hooks[h]]]
    ELSE R

\* an unregister that takes the plugin out of the chains and leaves its name
\* in the index
unregister_ChainsOnly(R, plugin_name) ==
    IF HasKey(R.plugins, plugin_name)
    THEN LET plugin == OrderedGet(R.plugins, plugin_name)
         IN  [R EXCEPT !.hooks = [h \in HookNames |->
                                    SelectSeq(R.hooks[h], LAMBDA e : e[2] # plugin)]]
    ELSE R

\* an unregister that drops the plugin from the name index only
unregister_IndexOnly(R, plugin_name) ==
    [R EXCEPT !.plugins = OrderedPop(R.plugins, plugin_name)]

\* PluginRegistry.unregister(plugin_name)
unregister(R, plugin_name) ==
    IF HasKey(R.plugins, plugin_name)
    THEN LET plugin == OrderedGet(R.plugins, plugin_name)
         IN  [R EXCEPT !.plugins = OrderedPop(R.plugins, plugin_name),
                       !.hooks = [h \in HookNames |->
                                    SelectSeq(R.hooks[h], LAMBDA e : e[2] # plugin)]]
    ELSE R

\* PluginRegistry.get_plugin(name)
get_plugin(R, name) == OrderedGet(R.plugins, name)

\* PluginRegistry.list_plugins()
list_plugins(R) == [i \in DOMAIN R.plugins |-> R.plugins[i][1]]

\* PluginRegistry.get_schema_extensions(model_name)
get_schema_extensions(R, model_name) ==
    IF model_name \in DOMAIN R.schema_extensions
    THEN R.schema_extensions[model_name]
    ELSE EmptyDict

\* the if/elif dispatch of execute_hook: the callback name and its result
CallbackName(hook_name) ==
    IF hook_name = "agent_init" THEN "on_agent_init"
    ELSE IF hook_name = "generate_request" THEN "on_generate_request"
    ELSE IF hook_name = "generate_response" THEN "on_generate_response"
    ELSE "on_chat_message"
Dispatch(hook_name, o, result) ==
    IF hook_name = "agent_init" THEN on_agent_init(o, result)
    ELSE IF hook_name = "generate_request" THEN on_generate_request(o, result)
    ELSE IF hook_name = "generate_response" THEN on_generate_response(o, result)
    ELSE IF hook_name = "chat_message" THEN on_chat_message(o, result)
    ELSE result

\* the loop of execute_hook over a chain; acc is [result, calls], calls the
\* callbacks invoked so far, each with the record it was handed
RECURSIVE RunChain(_, _, _, _)
RunChain(chain, cfg, hook_name, acc) ==
    IF chain = <<>> THEN acc
    ELSE LET plugin == Head(chain)[2]
         IN  IF ~cfg[plugin].enabled
             THEN RunChain(Tail(chain), cfg, hook_name, acc)
             ELSE RunChain(Tail(chain), cfg, hook_name,
                    [result |-> Dispatch(hook_name, plugin, acc.result),
                     calls |-> Append(acc.calls,
                                 [plugin |-> plugin,
                                  callback |-> CallbackName(hook_name),
                                  arg |-> acc.result])])

\* a traversal that catches the exception of a callback and goes on with the
\* next entry of the chain
RECURSIVE RunChainFailing_Isolated(_, _, _, _, _)
RunChainFailing_Isolated(chain, cfg, hook_name, raising, acc) ==
    IF chain = <<>> THEN acc
    ELSE LET plugin == Head(chain)[2]
             called == [acc EXCEPT !.calls = Append(acc.calls, plugin)]
         IN  IF ~cfg[plugin].enabled
             THEN RunChainFailing_Isolated(Tail(chain), cfg, hook_name, raising, acc)
             ELSE IF plugin \in raising
                  THEN RunChainFailing_Isolated(Tail(chain), cfg, hook_name, raising, called)
                  ELSE RunChainFailing_Isolated(Tail(chain), cfg, hook_name, raising,
                          [called EXCEPT !.result = Dispatch(hook_name, plugin, acc.result)])

\* the loop of execute_hook over a chain while the callbacks of the plugins
\* in raising raise; acc is [result, calls, raised]: the record so far, the
\* plugins whose callback was invoked, and whether an exception left the loop
RECURSIVE RunChainFailing(_, _, _, _, _)
RunChainFailing(chain, cfg, hook_name, raising, acc) ==
    IF chain = <<>> \/ acc.raised THEN acc
    ELSE LET plugin == Head(chain)[2]
             called == [acc EXCEPT !.calls = Append(acc.calls, plugin)]
         IN  IF ~cfg[plugin].enabled
             THEN RunChainFailing(Tail(chain), cfg, hook_name, raising, acc)
             ELSE IF plugin \in raising
                  THEN \* no try: the exception leaves the loop and the call
                       [called EXCEPT !.raised = TRUE]
                  ELSE RunChainFailing(Tail(chain), cfg, hook_name, raising,
                          [called EXCEPT !.result = Dispatch(hook_name, plugin, acc.result)])

\* PluginRegistry.execute_hook(hook_name, data) while the callbacks of the
\* plugins in raising raise: [result, calls, raised]
execute_hook_failing(R, cfg, hook_name, data, raising) ==
    IF hook_name \notin DOMAIN R.hooks
    THEN [result |-> data, calls |-> <<>>, raised |-> FALSE]
    ELSE RunChainFailing(R.hooks[hook_name], cfg, hook_name, raising,
                         [result |-> data, calls |-> <<>>, raised |-> FALSE])

\* an execute_hook that hands every enabled plugin the caller's record
\* (independent transforms) and returns what the last one made of it
execute_hook_Independent(R, cfg, hook_name, data) ==
    LET r == IF hook_name \notin DOMAIN R.hooks
             THEN [result |-> data, calls |-> <<>>]
             ELSE RunChain(R.hooks[hook_name], cfg, hook_name,
                           [result |-> data, calls |-> <<>>])
    IN  [result |-> IF r.calls = <<>> THEN data
                    ELSE Dispatch(hook_name, r.calls[Len(r.calls)].plugin, data),
         calls |-> [i \in DOMAIN r.calls |-> [r.calls[i] EXCEPT !.arg = data]]]

\* an execute_hook without the check of the hook name: a name that has no
\* chain runs over every registered plugin
execute_hook_AnyName(R, cfg, hook_name, data) ==
    RunChain(IF hook_name \in DOMAIN R.hooks THEN R.hooks[hook_name]
             ELSE [i \in DOMAIN R.plugins |-> <<0, R.plugins[i][2]>>],
             cfg, hook_name, [result |-> data, calls |-> <<>>])

\* PluginRegistry.execute_hook(hook_name, data): [result, calls]
execute_hook(R, cfg, hook_name, data) ==
    IF hook_name \notin DOMAIN R.hooks
    THEN [result |-> data, calls |-> <<>>]
    ELSE RunChain(R.hooks[hook_name], cfg, hook_name,
                  [result |-> data, calls |-> <<>>])

\* The caller's dict when execute_hook returns.  result = data binds the
\* caller's dict itself, and a callback assigns into the dict it is handed
\* and returns that dict (request["options"] = {}, request["log_id"] = ...,
\* return request), so every callback is handed the caller's dict and the
\* dict ends as the result.
record_after(R, cfg, hook_name, data) == execute_hook(R, cfg, hook_name, data).result

\* Plugin.initialize() of plugin o, when the plugins in raising fail
InitializeRaises(o, raising) == o \in raising
\* what the initialize() of plugin o does to the configurations: the
\* initialize() of the plugin meddler switches the enabled flag of every
\* other plugin, every other initialize() leaves the configurations alone
InitializeEffect(o, meddler, cfg) ==
    IF o = meddler
    THEN [x \in DOMAIN cfg |->
            IF x = o THEN cfg[x] ELSE [cfg[x] EXCEPT !.enabled = ~cfg[x].enabled]]
    ELSE cfg

\* an initialize_all that decides which plugins to initialize from the
\* enabled flags as they are when the call starts
RECURSIVE InitializeLoop_Snapshot(_, _, _, _, _)
InitializeLoop_Snapshot(plugs, cfg0, raising, meddler, acc) ==
    IF plugs = <<>> \/ acc.raised THEN acc
    ELSE LET plugin == Head(plugs)[2]
             reached == [acc EXCEPT !.seen = Append(acc.seen,
                            [plugin |-> plugin,
                             enabled |-> acc.config[plugin].enabled,
                             called |-> cfg0[plugin].enabled])]
         IN  IF ~cfg0[plugin].enabled
             THEN InitializeLoop_Snapshot(Tail(plugs), cfg0, raising, meddler, reached)
             ELSE IF InitializeRaises(plugin, raising)
                  THEN [reached EXCEPT !.raised = TRUE]
                  ELSE InitializeLoop_Snapshot(Tail(plugs), cfg0, raising, meddler,
                          [reached EXCEPT !.config =
                              InitializeEffect(plugin, meddler, acc.config)])
initialize_all_Snapshot(R, cfg, raising, meddler) ==
    InitializeLoop_Snapshot(R.plugins, cfg, raising, meddler,
                            [config |-> cfg, seen |-> <<>>, raised |-> FALSE])

\* an initialize_all that catches a failure and goes on with the next plugin
RECURSIVE InitializeLoop_Isolated(_, _, _, _)
InitializeLoop_Isolated(plugs, raising, meddler, acc) ==
    IF plugs = <<>> THEN acc
    ELSE LET plugin == Head(plugs)[2]
             enabled == acc.config[plugin].enabled
             reached == [acc EXCEPT !.seen = Append(acc.seen,
                            [plugin |-> plugin, enabled |-> enabled, called |-> enabled])]
         IN  IF ~enabled \/ InitializeRaises(plugin, raising)
             THEN InitializeLoop_Isolated(Tail(plugs), raising, meddler, reached)
             ELSE InitializeLoop_Isolated(Tail(plugs), raising, meddler,
                     [reached EXCEPT !.config =
                         InitializeEffect(plugin, meddler, acc.config)])

initialize_all_Isolated(R, cfg, raising, meddler) ==
    InitializeLoop_Isolated(R.plugins, raising, meddler,
                            [config |-> cfg, seen |-> <<>>, raised |-> FALSE])

\* the loop of initialize_all over the registered plugins; acc is
\* [config, seen, raised]: the configurations as the initialize() calls have
\* left them, for every plugin the iteration reached the enabled flag it read
\* and whether it called initialize(), and whether a failure left the loop
RECURSIVE InitializeLoop(_, _, _, _)
InitializeLoop(plugs, raising, meddler, acc) ==
    IF plugs = <<>> \/ acc.raised THEN acc
    ELSE LET plugin == Head(plugs)[2]
             enabled == acc.config[plugin].enabled
             reached == [acc EXCEPT !.seen = Append(acc.seen,
                            [plugin |-> plugin, enabled |-> enabled, called |-> enabled])]
         IN  IF ~enabled
             THEN InitializeLoop(Tail(plugs), raising, meddler, reached)
             ELSE IF InitializeRaises(plugin, raising)
                  THEN \* no try: the exception leaves the loop
                       [reached EXCEPT !.raised = TRUE]
                  ELSE InitializeLoop(Tail(plugs), raising, meddler,
                          [reached EXCEPT !.config =
                              InitializeEffect(plugin, meddler, acc.config)])

\* PluginRegistry.initialize_all(): [config, seen, raised]
initialize_all(R, cfg, raising, meddler) ==
    InitializeLoop(R.plugins, raising, meddler,
                   [config |-> cfg, seen |-> <<>>, raised |-> FALSE])

\* ------------------------------------------------ the bulk calls, by await
\* initialize_all() / shutdown_all() one step at a time.  A call in progress
\* is [op, call, rest, active, events, finished, raised]: the plugins the
\* iteration has yet to reach, the plugins whose initialize()/shutdown() has
\* started and not completed, the starts and completions so far, whether the
\* call is over, and whether it ended by raising.
NewBulk(call, R) ==
    [op |-> "bulk", call |-> call,
     rest |-> [i \in DOMAIN R.plugins |-> R.plugins[i][2]],
     active |-> {}, events |-> <<>>, finished |-> FALSE, raised |-> FALSE]

\* a loop that starts every call before it awaits any (a gather)
MayStartNext_Concurrent(b) == TRUE

\* `await plugin.initialize()` / `await plugin.shutdown()` in the body of the
\* for loop: the loop goes on to the next plugin when the awaited call has
\* completed
MayStartNext(b) == b.active = {}

\* the loop reaches the next plugin: initialize_all passes over a plugin that
\* is disabled now, otherwise the plugin's call starts
bulk_next(b, cfg) ==
    LET plugin == Head(b.rest)
    IN  IF b.call = "initialize_all" /\ ~cfg[plugin].enabled
        THEN [b EXCEPT !.rest = Tail(b.rest)]
        ELSE [b EXCEPT !.rest = Tail(b.rest),
                       !.active = b.active \cup {plugin},
                       !.events = Append(b.events, <<"start", plugin>>)]

\* the call on plugin completes: it returns, or it raises; shutdown_all
\* catches and goes on, initialize_all is left by the exception
bulk_complete(b, plugin, raises) ==
    LET completed == [b EXCEPT !.active = b.active \ {plugin},
                               !.events = Append(b.events,
                                   <<IF raises THEN "raised" ELSE "returned", plugin>>)]
    IN  IF raises /\ b.call = "initialize_all"
        THEN [completed EXCEPT !.finished = TRUE, !.raised = TRUE]
        ELSE completed

\* Plugin.shutdown() of plugin o, when the plugins in raising fail
ShutdownRaises(o, raising) == o \in raising

\* a shutdown loop without the try/except: the first failure leaves the loop
RECURSIVE ShutdownLoop_Propagate(_, _, _)
ShutdownLoop_Propagate(plugs, raising, acc) ==
    IF plugs = <<>> THEN acc
    ELSE LET plugin == Head(plugs)[2]
             called == [acc EXCEPT !.calls = Append(acc.calls, plugin)]
         IN  IF plugin \in raising
             THEN [called EXCEPT !.raised = TRUE]
             ELSE ShutdownLoop_Propagate(Tail(plugs), raising, called)

\* the loop of shutdown_all over the registered plugins; acc is
\* [calls, reported, raised]: the shutdown() calls made, the failures printed,
\* and whether a failure left the loop
RECURSIVE ShutdownLoop(_, _, _)
ShutdownLoop(plugs, raising, acc) ==
    IF plugs = <<>> \/ acc.raised THEN acc
    ELSE LET plugin == Head(plugs)[2]
             called == [acc EXCEPT !.calls = Append(acc.calls, plugin)]
         IN  IF ShutdownRaises(plugin, raising)
             THEN \* except Exception as e: print(...)
                  ShutdownLoop(Tail(plugs), raising,
                     [called EXCEPT !.reported = Append(called.reported, get_name(plugin))])
             ELSE ShutdownLoop(Tail(plugs), raising, called)

\* PluginRegistry.shutdown_all()
shutdown_all(R, raising) ==
    ShutdownLoop(R.plugins, raising, [calls |-> <<>>, reported |-> <<>>, raised |-> FALSE])

\* execute_hook() as a task of the event loop, one chain entry at a time.  A
\* traversal is [op, hook_name, pos, calls, expected, switched, finished]: the
\* place in the chain the loop has reached, the plugins whose callback it has
\* invoked, the enabled plugins of the chain as they were when the call
\* started, whether another task has run since, and whether the call has
\* returned.
NewTraversal(R, cfg, hook_name) ==
    [op |-> "traversal", hook_name |-> hook_name, pos |-> 1, calls |-> <<>>,
     expected |-> LET on == SelectSeq(R.hooks[hook_name], LAMBDA e : cfg[e[2]].enabled)
                  IN  [i \in DOMAIN on |-> on[i][2]],
     switched |-> FALSE, finished |-> FALSE]

\* one turn of the for loop over the live chain: past the end the call
\* returns, a disabled plugin is passed over, an enabled one has its callback
\* called
traversal_step(t, R, cfg) ==
    LET chain == R.hooks[t.hook_name]
    IN  IF t.pos > Len(chain) THEN [t EXCEPT !.finished = TRUE]
        ELSE IF ~cfg[chain[t.pos][2]].enabled THEN [t EXCEPT !.pos = t.pos + 1]
        ELSE [t EXCEPT !.pos = t.pos + 1, !.calls = Append(t.calls, chain[t.pos][2])]

\* a traversal whose callbacks are awaited: the event loop may run another
\* task between two entries of the chain
may_switch_AtEachCallback(t) == TRUE

\* whether the event loop may run another task: the body of execute_hook
\* holds no await (the callbacks are called, not awaited), so the task that
\* runs it gives up control only when the call has returned
may_switch(t) == t.finished

\* shutdown_all() one step at a time over a registry that may change while
\* the call is suspended in a plugin's shutdown().  The for loop iterates the
\* live view self._plugins.values(): the iterator walks the entries of the
\* dict in insertion order, a removed entry leaves an empty slot and a new
\* entry is appended, and every step first compares the size of the dict with
\* the size at the start of the iteration and raises RuntimeError
\* ("dictionary changed size during iteration") if they differ.  The step is
\* taken by the for statement, outside the try of the loop body.  A walk is
\* [op, began, slots, pos, used, active, calls, changes, finished, raised],
\* changes the number of registrations and removals made during the call.
NewWalk(R) ==
    [op |-> "shutdown_walk",
     began |-> {R.plugins[i][2] : i \in DOMAIN R.plugins},
     slots |-> [i \in DOMAIN R.plugins |-> R.plugins[i][2]],
     pos |-> 1, used |-> Len(R.plugins), active |-> None, calls |-> <<>>,
     changes |-> 0, finished |-> FALSE, raised |-> FALSE]

\* the for statement asks the iterator for the next plugin
walk_next(w, R) ==
    LET live == {i \in w.pos..Len(w.slots) : w.slots[i] # None}
    IN  IF Len(R.plugins) # w.used
        THEN [w EXCEPT !.finished = TRUE, !.raised = TRUE]
        ELSE IF live = {}
             THEN [w EXCEPT !.finished = TRUE]
             ELSE LET i == CHOOSE i \in live : \A j \in live : i <= j
                  IN  [w EXCEPT !.pos = i + 1, !.active = w.slots[i],
                                !.calls = Append(w.calls, w.slots[i])]

\* the awaited shutdown() completes; what it raises is caught and printed
walk_complete(w) == [w EXCEPT !.active = None]

\* the entries of the dict after a register / an unregister during the walk
walk_registered(w, o) ==
    [w EXCEPT !.slots = Append(w.slots, o), !.changes = w.changes + 1]
walk_unregistered(w, plugin) ==
    [w EXCEPT !.slots = [i \in DOMAIN w.slots |->
                            IF w.slots[i] = plugin THEN None ELSE w.slots[i]],
              !.changes = w.changes + 1]

\* ------------------------------------------------------------- the manager
\* json.dump / json.load of the persisted-configuration map.  The file holds
\* text: a boolean is written as true/false, an integer in decimal.
JsonBool(b) == IF b THEN "true" ELSE "false"
JsonValue(key, value) == IF key = "enabled" THEN JsonBool(value) ELSE ToString(value)
JsonParse(token) ==
    IF token = "true" THEN TRUE
    ELSE IF token = "false" THEN FALSE
    ELSE CHOOSE i \in Priorities : ToString(i) = token
json_dump(cfgs) ==
    [n \in DOMAIN cfgs |-> [k \in DOMAIN cfgs[n] |-> JsonValue(k, cfgs[n][k])]]
json_load(text) ==
    [n \in DOMAIN text |-> [k \in DOMAIN text[n] |-> JsonParse(text[n][k])]]

NoFile == [exists |-> FALSE, text |-> EmptyDict]

\* PluginManager.__init__ with a fresh registry, over the plugin objects'
\* configurations cfg and the file f: the state the manager's operations act on
NewManager(cfg, f) ==
    [config |-> cfg, registry |-> NewRegistry, plugin_configs |-> EmptyDict, file |-> f]

\* a load_config() that starts from an empty map when there is no file
load_config_Reset(M) ==
    IF M.file.exists
    THEN [M EXCEPT !.plugin_configs = json_load(M.file.text)]
    ELSE [M EXCEPT !.plugin_configs = EmptyDict]

\* PluginManager.load_config()
load_config(M) ==
    IF M.file.exists
    THEN [M EXCEPT !.plugin_configs = json_load(M.file.text)]
    ELSE M

\* PluginManager.save_config()
save_config(M) ==
    [M EXCEPT !.file = [exists |-> TRUE, text |-> json_dump(M.plugin_configs)]]

\* an apply loop that restores the enabled flag only
ApplySaved_EnabledOnly(pluginConfig, saved) ==
    [k \in DOMAIN pluginConfig |->
        IF k = "enabled" /\ k \in DOMAIN saved THEN saved[k] ELSE pluginConfig[k]]

\* the "Apply saved config to plugin" loop of register_plugin:
\* setattr for the keys the configuration object exposes
ApplySaved(pluginConfig, saved) ==
    [k \in DOMAIN pluginConfig |-> IF k \in DOMAIN saved THEN saved[k] ELSE pluginConfig[k]]

\* an optional config argument: absent (None) or a dict
NoConfig == [given |-> FALSE, value |-> EmptyDict]
SomeConfig(d) == [given |-> TRUE, value |-> d]

\* a register_plugin that registers first and applies the persisted entry
\* afterwards: the chains get the priority the plugin was constructed with
register_plugin_ApplyAfter(M, o, cfgArg) ==
    LET plugin_name == get_name(o)
        reg == register(M.registry, M.config, o)
        registered == [M EXCEPT !.registry = reg.registry]
    IN  [raised |-> reg.raised,
         manager |->
            IF cfgArg.given /\ cfgArg.value # EmptyDict
            THEN [registered EXCEPT !.plugin_configs =
                                       DictSet(M.plugin_configs, plugin_name, cfgArg.value)]
            ELSE IF plugin_name \in DOMAIN M.plugin_configs
                 THEN [registered EXCEPT !.config[o] =
                                            ApplySaved(M.config[o], M.plugin_configs[plugin_name])]
                 ELSE registered]

\* PluginManager.register_plugin(plugin, config): [raised, manager]
register_plugin(M, o, cfgArg) ==
    LET plugin_name == get_name(o)
        merged ==
            IF cfgArg.given /\ cfgArg.value # EmptyDict
            THEN [M EXCEPT !.plugin_configs = DictSet(M.plugin_configs, plugin_name, cfgArg.value)]
            ELSE IF plugin_name \in DOMAIN M.plugin_configs
                 THEN [M EXCEPT !.config[o] = ApplySaved(M.config[o], M.plugin_configs[plugin_name])]
                 ELSE M
        reg == register(merged.registry, merged.config, o)
    IN  [raised |-> reg.raised, manager |-> [merged EXCEPT !.registry = reg.registry]]

\* an assignment that replaces the whole entry by the one key
SetEntry_Replace(cfgs, name, key, value) ==
    DictSet(cfgs, name, DictSet(EmptyDict, key, value))

\* self._plugin_configs[name][key] = value, the entry created if absent
SetEntry(cfgs, name, key, value) ==
    DictSet(cfgs, name,
            DictSet(IF name \in DOMAIN cfgs THEN cfgs[name] ELSE EmptyDict, key, value))

\* PluginManager.list_plugins(): name, version, enabled, priority of every
\* registered plugin, in the order of the name index
manager_list_plugins(M) ==
    LET names == list_plugins(M.registry)
    IN  [i \in DOMAIN names |->
            LET plugin == get_plugin(M.registry, names[i])
            IN  [name |-> get_name(plugin),
                 version |-> get_version(plugin),
                 enabled |-> M.config[plugin].enabled,
                 priority |-> M.config[plugin].priority]]

\* an enable_plugin that records the flag and saves also when no plugin of
\* the name is registered
enable_plugin_Unguarded(M, name) ==
    LET plugin == get_plugin(M.registry, name)
        recorded == [M EXCEPT !.plugin_configs = SetEntry(M.plugin_configs, name, "enabled", TRUE)]
    IN  IF plugin # None
        THEN save_config([recorded EXCEPT !.config[plugin].enabled = TRUE])
        ELSE save_config(recorded)

\* an enable_plugin that sorts the chains again, by the live priorities
enable_plugin_Resort(M, name) ==
    LET plugin == get_plugin(M.registry, name)
        retag(chain) == [i \in DOMAIN chain |-> <<M.config[chain[i][2]].priority, chain[i][2]>>]
    IN  IF plugin # None
        THEN save_config([M EXCEPT !.config[plugin].enabled = TRUE,
                                   !.plugin_configs = SetEntry(M.plugin_configs, name, "enabled", TRUE),
                                   !.registry.hooks = [h \in HookNames |->
                                        SortChain(retag(M.registry.hooks[h]))]])
        ELSE M

\* an enable_plugin that records and saves the flag but leaves the live
\* configuration alone
enable_plugin_RecordOnly(M, name) ==
    LET plugin == get_plugin(M.registry, name)
    IN  IF plugin # None
        THEN save_config([M EXCEPT !.plugin_configs =
                                      SetEntry(M.plugin_configs, name, "enabled", TRUE)])
        ELSE M

\* PluginManager.enable_plugin(name)
enable_plugin(M, name) ==
    LET plugin == get_plugin(M.registry, name)
    IN  IF plugin # None
        THEN save_config([M EXCEPT !.config[plugin].enabled = TRUE,
                                   !.plugin_configs = SetEntry(M.plugin_configs, name, "enabled", TRUE)])
        ELSE M

\* a disable_plugin that records and saves the flag but leaves the live
\* configuration alone
disable_plugin_RecordOnly(M, name) ==
    LET plugin == get_plugin(M.registry, name)
    IN  IF plugin # None
        THEN save_config([M EXCEPT !.plugin_configs =
                                      SetEntry(M.plugin_configs, name, "enabled", FALSE)])
        ELSE M

\* PluginManager.disable_plugin(name)
disable_plugin(M, name) ==
    LET plugin == get_plugin(M.registry, name)
    IN  IF plugin # None
        THEN save_config([M EXCEPT !.config[plugin].enabled = FALSE,
                                   !.plugin_configs = SetEntry(M.plugin_configs, name, "enabled", FALSE)])
        ELSE M

\* a set_plugin_priority that re-sorts the hook chains by the live priorities
set_plugin_priority_Resort(M, name, priority) ==
    LET plugin == get_plugin(M.registry, name)
        live == [M.config EXCEPT ![plugin].priority = priority]
        retag(chain) == [i \in DOMAIN chain |-> <<live[chain[i][2]].priority, chain[i][2]>>]
    IN  IF plugin # None
        THEN save_config([M EXCEPT !.config = live,
                                   !.plugin_configs = SetEntry(M.plugin_configs, name, "priority", priority),
                                   !.registry.hooks = [h \in HookNames |->
                                        SortChain(retag(M.registry.hooks[h]))]])
        ELSE M

\* PluginManager.set_plugin_priority(name, priority)
set_plugin_priority(M, name, priority) ==
    LET plugin == get_plugin(M.registry, name)
    IN  IF plugin # None
        THEN save_config([M EXCEPT !.config[plugin].priority = priority,
                                   !.plugin_configs = SetEntry(M.plugin_configs, name, "priority", priority)])
        ELSE M

\* save_config() while the configuration directory or file cannot be
\* written (permission denied): mkdir or open raises OSError before anything
\* is written: [raised, manager]
save_config_denied(M) == [raised |-> TRUE, manager |-> M]

\* the three operations with a try/except around the save: the failure is
\* swallowed
toggle_denied_Swallowed(M, op, name, priority) ==
    LET done == IF op = "enable_plugin" THEN enable_plugin(M, name)
                ELSE IF op = "disable_plugin" THEN disable_plugin(M, name)
                ELSE set_plugin_priority(M, name, priority)
    IN  [raised |-> FALSE, manager |-> [done EXCEPT !.file = M.file]]

\* enable_plugin(name) / disable_plugin(name) / set_plugin_priority(name,
\* priority) while save_config() is denied: the assignments that precede the
\* save are made, save_config() is the last statement and nothing around it
\* catches, so its OSError leaves the operation; for a name that is not
\* registered save_config() is not called.  [raised, manager]
toggle_denied(M, op, name, priority) ==
    LET plugin == get_plugin(M.registry, name)
        done == IF op = "enable_plugin" THEN enable_plugin(M, name)
                ELSE IF op = "disable_plugin" THEN disable_plugin(M, name)
                ELSE set_plugin_priority(M, name, priority)
    IN  IF plugin # None
        THEN save_config_denied([done EXCEPT !.file = M.file])
        ELSE [raised |-> FALSE, manager |-> M]

\* a process_generate_response that runs the generate_request hook
process_generate_response_Request(M, response) ==
    execute_hook(M.registry, M.config, "generate_request", response)

\* PluginManager.process_agent_config / process_generate_request /
\* process_generate_response / process_chat_message
process_agent_config(M, cfg) == execute_hook(M.registry, M.config, "agent_init", cfg)
process_generate_request(M, request) ==
    execute_hook(M.registry, M.config, "generate_request", request)
process_generate_response(M, response) ==
    execute_hook(M.registry, M.config, "generate_response", response)
process_chat_message(M, message) ==
    execute_hook(M.registry, M.config, "chat_message", message)
ProcessMethods ==
    {"process_agent_config", "process_generate_request",
     "process_generate_response", "process_chat_message"}

\* a process_* method while the callbacks of the plugins in raising raise:
\* return await self.registry.execute_hook(...), no try
process_failing(M, method, data, raising) ==
    execute_hook_failing(M.registry, M.config,
        IF method = "process_agent_config" THEN "agent_init"
        ELSE IF method = "process_generate_request" THEN "generate_request"
        ELSE IF method = "process_generate_response" THEN "generate_response"
        ELSE "chat_message",
        data, raising)

\* PluginManager.initialize_all(): pass-through to the registry
manager_initialize_all(M, raising, meddler) ==
    initialize_all(M.registry, M.config, raising, meddler)

\* PluginManager.shutdown_all(): pass-through to the registry
manager_shutdown_all(M, raising) == shutdown_all(M.registry, raising)

\* ----------------------------------------------------------- the discovery
\* The plugins directory is [exists, entries], entries in the order the scan
\* meets them.  An entry is [stem, suffix, nested, fails]: the file name
\* without its suffix, as a sequence of characters; the suffix; whether the
\* file lies in a subdirectory; and whether executing its code raises.
Stems == {<<"a">>, <<"_", "a">>, <<"b", "_">>}
Suffixes == {"py", "txt"}
Entries == [stem : Stems, suffix : Suffixes, nested : BOOLEAN, fails : BOOLEAN]
\* the path of an entry, without what its content does
PathOf(e) == <<e.nested, e.stem, e.suffix>>

\* a test for an underscore anywhere in the stem
StartsWithUnderscore_Anywhere(stem) == \E i \in DOMAIN stem : stem[i] = "_"

\* path.stem.startswith("_")
StartsWithUnderscore(stem) == stem # <<>> /\ stem[1] = "_"

\* self.plugins_dir.glob("*.py"): the entries directly in the directory
\* whose name ends in .py
glob_py(D) == SelectSeq(D.entries, LAMBDA e : e.suffix = "py" /\ ~e.nested)

\* f"ai_cli_plugin_{path.stem}"
module_name(stem) == <<"ai_cli_plugin_">> \o stem

\* the loop of discover_plugins over the scan; acc is [discovered, modules,
\* executed, raised]: the identifiers collected, sys.modules, the files whose
\* code was run, and whether exec_module raised (nothing catches it)
RECURSIVE DiscoverLoop(_, _)
DiscoverLoop(paths, acc) ==
    IF paths = <<>> \/ acc.raised THEN acc
    ELSE LET path == Head(paths)
             name == module_name(path.stem)
         IN  IF StartsWithUnderscore(path.stem)
             THEN DiscoverLoop(Tail(paths), acc)
             ELSE DiscoverLoop(Tail(paths),
                    [discovered |-> Append(acc.discovered, name),
                     modules |-> acc.modules \cup {name},
                     executed |-> Append(acc.executed, path),
                     raised |-> path.fails])

\* PluginManager.discover_plugins() on directory D with sys.modules modules
discover_plugins(D, modules) ==
    IF ~D.exists
    THEN [discovered |-> <<>>, modules |-> modules, executed |-> <<>>, raised |-> FALSE]
    ELSE DiscoverLoop(glob_py(D),
                      [discovered |-> <<>>, modules |-> modules,
                       executed |-> <<>>, raised |-> FALSE])

\* ------------------------------------------------------------- the globals
\* An instance is numbered by its class's count of instances at its
\* construction.  G is [registry, manager, registries, managers, wraps,
\* loads]: _global_registry and _global_manager (None before the first
\* access), the instances constructed of each class, the registry the global
\* manager wraps, and the load_config() calls made on the global manager.
\* G.fresh is a manager the caller constructs on a registry of its own,
\* PluginManager(registry=PluginRegistry()): its instance number, the number
\* of the registry it wraps, and the content of that registry and of its
\* _plugin_configs.
NoGlobals ==
    [registry |-> None, manager |-> None, registries |-> 0, managers |-> 0,
     wraps |-> None, loads |-> 0,
     modules |-> {}, plugins_dir |-> [exists |-> FALSE, entries |-> <<>>],
     fresh |-> [made |-> FALSE, manager |-> None, wraps |-> None,
                registry |-> NewRegistry, plugin_configs |-> EmptyDict]]

\* a get_global_manager that loads the configuration on every call
get_global_manager_Reload(G) ==
    LET made == IF G.manager # None THEN G
                ELSE LET reg == IF G.registry # None THEN G
                                ELSE [G EXCEPT !.registries = G.registries + 1,
                                               !.registry = G.registries + 1]
                     IN  [reg EXCEPT !.managers = reg.managers + 1,
                                     !.manager = reg.managers + 1,
                                     !.wraps = reg.registry]
    IN  [globals |-> [made EXCEPT !.loads = made.loads + 1], result |-> made.manager]

\* get_global_registry(): [globals, result]
get_global_registry(G) ==
    IF G.registry = None
    THEN [globals |-> [G EXCEPT !.registries = G.registries + 1,
                                !.registry = G.registries + 1],
          result |-> G.registries + 1]
    ELSE [globals |-> G, result |-> G.registry]

\* PluginRegistry(): [globals, result]
new_registry(G) ==
    [globals |-> [G EXCEPT !.registries = G.registries + 1], result |-> G.registries + 1]

\* a constructor that takes the global registry whatever it is given
new_manager_AlwaysGlobal(G, arg) ==
    LET reg == get_global_registry(G)
    IN  [globals |-> [reg.globals EXCEPT !.managers = reg.globals.managers + 1],
         result |-> reg.globals.managers + 1,
         registry |-> reg.result]

\* PluginManager(registry=arg): registry or get_global_registry();
\* [globals, result, registry]
new_manager(G, arg) ==
    LET reg == IF arg # None THEN [globals |-> G, result |-> arg]
               ELSE get_global_registry(G)
    IN  [globals |-> [reg.globals EXCEPT !.managers = reg.globals.managers + 1],
         result |-> reg.globals.managers + 1,
         registry |-> reg.result]

\* get_global_manager(): [globals, result]
get_global_manager(G) ==
    IF G.manager = None
    THEN LET made == new_manager(G, None)
         IN  [globals |-> [made.globals EXCEPT !.manager = made.result,
                                               !.wraps = made.registry,
                                               !.loads = made.globals.loads + 1],
              result |-> made.result]
    ELSE [globals |-> G, result |-> G.manager]

\* ---------------------------------------------------------------- the state
\* A plugin object that is not registered is an input of the registration
\* that hands it over: the state keeps the configuration of the registered
\* objects only, every other object reads as not yet constructed
\* (DefaultConfig), and an object is dropped when it is unregistered or when
\* its registration fails.
IsRegistered(R, o) == \E i \in DOMAIN R.plugins : R.plugins[i][2] = o
Forget(cfg, R) == [x \in Objs |-> IF IsRegistered(R, x) THEN cfg[x] ELSE DefaultConfig]

\* the configurations with object o constructed with configuration c; an
\* object that is registered already is handed over as it is
Constructed(o, c) == IF IsRegistered(registry, o) THEN config ELSE [config EXCEPT ![o] = c]
\* the configurations object o may be handed over with
ConfigsOf(o) == IF IsRegistered(registry, o) THEN {config[o]} ELSE PluginConfigs

\* the configurations of an object constructed with the default configuration
DefaultConstructed(o) == IF IsRegistered(registry, o) THEN {config[o]} ELSE {DefaultConfig}

\* the manager and what it acts on, as one value
Manager ==
    [config |-> config, registry |-> registry,
     plugin_configs |-> plugin_configs, file |-> file]

\* the state becomes manager value M
Becomes(M) ==
    /\ config' = Forget(M.config, M.registry)
    /\ registry' = M.registry
    /\ plugin_configs' = M.plugin_configs
    /\ file' = M.file

\* never[x] after object o was registered / the plugin named name was removed
NeverRegister(o) ==
    [x \in Objs |-> IF x = o THEN never[x] ELSE register(never[x], config', o).registry]
NeverUnregister(name, plugin) ==
    [x \in Objs |-> IF x = plugin THEN never[x] ELSE unregister(never[x], name)]

\* nothing is registered, the manager has loaded nothing and the
\* configuration file does not exist
Init ==
    /\ config = [o \in Objs |-> DefaultConfig]
    /\ registry = NewRegistry
    /\ plugin_configs = EmptyDict
    /\ file = NoFile
    /\ ret = [op |-> "init"]
    /\ never = [x \in Objs |-> NewRegistry]
    /\ globals = NoGlobals

\* registry.register(plugin), called directly, plugin o constructed with c
Register(o, c) ==
    LET r == register(registry, Constructed(o, c), o)
    IN  /\ registry' = r.registry
        /\ config' = Forget(Constructed(o, c), r.registry)
        /\ UNCHANGED <<plugin_configs, file>>
        /\ never' = IF r.raised THEN never ELSE NeverRegister(o)
        /\ UNCHANGED globals
        /\ ret' = [op |-> "register", plugin |-> o, raised |-> r.raised,
                   before |-> registry]

\* registry.unregister(name)
Unregister(name) ==
    LET plugin == get_plugin(registry, name)
    IN  /\ registry' = unregister(registry, name)
        /\ config' = Forget(config, registry')
        /\ UNCHANGED <<plugin_configs, file>>
        /\ never' = IF plugin = None THEN never ELSE NeverUnregister(name, plugin)
        /\ UNCHANGED globals
        /\ ret' = [op |-> "unregister", name |-> name, plugin |-> plugin]

\* registry.execute_hook(hook_name, data), also through the manager's process_*
ExecuteHook(hook_name, data) ==
    LET r == execute_hook(registry, config, hook_name, data)
    IN  /\ UNCHANGED <<config, registry, plugin_configs, file, never>>
        /\ UNCHANGED globals
        /\ ret' = [op |-> "execute_hook", hook_name |-> hook_name, data |-> data,
                   result |-> r.result, calls |-> r.calls,
                   data_after |-> record_after(registry, config, hook_name, data)]

\* manager.shutdown_all() while the shutdown() of the plugins in raising fails
ShutdownAll(raising) ==
    LET r == manager_shutdown_all(Manager, raising)
    IN  /\ UNCHANGED <<config, registry, plugin_configs, file, never>>
        /\ UNCHANGED globals
        /\ ret' = [op |-> "shutdown_all", raising |-> raising,
                   calls |-> r.calls, reported |-> r.reported, raised |-> r.raised]

\* manager.initialize_all() while the initialize() of the plugins in raising
\* fails and the initialize() of meddler switches the other plugins' flags
InitializeAll(raising, meddler) ==
    LET r == manager_initialize_all(Manager, raising, meddler)
    IN  /\ config' = Forget(r.config, registry)
        /\ UNCHANGED <<registry, plugin_configs, file, never>>
        /\ UNCHANGED globals
        /\ ret' = [op |-> "initialize_all", raising |-> raising, meddler |-> meddler,
                   seen |-> r.seen, raised |-> r.raised]

\* no bulk call is in progress
Idle == IF ret.op = "bulk" THEN ret.finished ELSE TRUE

\* initialize_all() or shutdown_all() is called
BeginBulk(call) ==
    /\ Idle
    /\ ret' = NewBulk(call, registry)
    /\ UNCHANGED <<config, registry, plugin_configs, file, never, globals>>

\* the loop of the call in progress reaches its next plugin
BulkNext ==
    /\ ~Idle
    /\ ret.rest # <<>>
    /\ MayStartNext(ret)
    /\ ret' = bulk_next(ret, config)
    /\ UNCHANGED <<config, registry, plugin_configs, file, never, globals>>

\* the initialize()/shutdown() in progress on plugin completes
BulkComplete(plugin, raises) ==
    /\ ~Idle
    /\ plugin \in ret.active
    /\ ret' = bulk_complete(ret, plugin, raises)
    /\ UNCHANGED <<config, registry, plugin_configs, file, never, globals>>

\* the loop is exhausted: the call returns
BulkReturn ==
    /\ ~Idle
    /\ ret.rest = <<>>
    /\ ret.active = {}
    /\ ret' = [ret EXCEPT !.finished = TRUE]
    /\ UNCHANGED <<config, registry, plugin_configs, file, never, globals>>

\* manager.disable_plugin(name) and then manager.enable_plugin(name): the
\* record of the first call keeps the registry and the configurations from
\* before it, the record of the second also those between the two calls
DisablePluginFirst(name) ==
    /\ Becomes(disable_plugin(Manager, name))
    /\ UNCHANGED <<never, globals>>
    /\ ret' = [op |-> "disable_first", name |-> name,
               plugin |-> get_plugin(registry, name),
               before |-> [registry |-> registry, config |-> config]]
EnablePluginNext(name) ==
    /\ ret.op = "disable_first"
    /\ ret.name = name
    /\ Becomes(enable_plugin(Manager, name))
    /\ UNCHANGED <<never, globals>>
    /\ ret' = [op |-> "enable_next", name |-> name,
               plugin |-> get_plugin(registry, name),
               before |-> ret.before,
               between |-> [registry |-> registry, config |-> config]]

\* no execute_hook() is in progress; another task may run
TraversalIdle == IF ret.op = "traversal" THEN ret.finished ELSE TRUE
TaskMayRun == IF ret.op = "traversal" THEN may_switch(ret) ELSE TRUE
\* the record of the last call after another task ran call
AfterTask(call) ==
    IF TraversalIdle THEN [op |-> "task", call |-> call]
    ELSE [ret EXCEPT !.switched = TRUE]

\* a task calls execute_hook(hook_name, data)
BeginTraversal(hook_name) ==
    /\ TaskMayRun
    /\ TraversalIdle
    /\ ret' = NewTraversal(registry, config, hook_name)
    /\ UNCHANGED <<config, registry, plugin_configs, file, never, globals>>

\* the execute_hook() in progress takes its next turn of the loop
TraversalStep ==
    /\ ~TraversalIdle
    /\ ret' = traversal_step(ret, registry, config)
    /\ UNCHANGED <<config, registry, plugin_configs, file, never, globals>>

\* another task calls registry.register(plugin)
TaskRegister(o, c) ==
    LET r == register(registry, Constructed(o, c), o)
    IN  /\ TaskMayRun
        /\ registry' = r.registry
        /\ config' = Forget(Constructed(o, c), r.registry)
        /\ never' = IF r.raised THEN never ELSE NeverRegister(o)
        /\ ret' = AfterTask("register")
        /\ UNCHANGED <<plugin_configs, file, globals>>

\* another task calls registry.unregister(name)
TaskUnregister(name) ==
    LET plugin == get_plugin(registry, name)
    IN  /\ TaskMayRun
        /\ registry' = unregister(registry, name)
        /\ config' = Forget(config, registry')
        /\ never' = IF plugin = None THEN never ELSE NeverUnregister(name, plugin)
        /\ ret' = AfterTask("unregister")
        /\ UNCHANGED <<plugin_configs, file, globals>>

\* another task calls manager.enable_plugin(name) / disable_plugin(name)
TaskToggle(op, name) ==
    /\ TaskMayRun
    /\ Becomes(IF op = "enable_plugin" THEN enable_plugin(Manager, name)
               ELSE disable_plugin(Manager, name))
    /\ ret' = AfterTask(op)
    /\ UNCHANGED <<never, globals>>

\* no shutdown_all() is in progress step by step
WalkIdle == IF ret.op = "shutdown_walk" THEN ret.finished ELSE TRUE

\* shutdown_all() is called
BeginWalk ==
    /\ WalkIdle
    /\ ret' = NewWalk(registry)
    /\ UNCHANGED <<config, registry, plugin_configs, file, never, globals>>

\* the loop of the shutdown_all() in progress takes its next step
WalkNext ==
    /\ ~WalkIdle
    /\ ret.active = None
    /\ ret' = walk_next(ret, registry)
    /\ UNCHANGED <<config, registry, plugin_configs, file, never, globals>>

\* the shutdown() in progress completes
WalkComplete ==
    /\ ~WalkIdle
    /\ ret.active # None
    /\ ret' = walk_complete(ret)
    /\ UNCHANGED <<config, registry, plugin_configs, file, never, globals>>

\* registry.register(plugin) by another task, or by the shutdown() in
\* progress, while shutdown_all() is suspended
WalkRegister(o, c) ==
    LET r == register(registry, Constructed(o, c), o)
    IN  /\ ~WalkIdle
        /\ ret.active # None
        /\ ret.changes < MaxChanges
        /\ ~r.raised
        /\ registry' = r.registry
        /\ config' = Forget(Constructed(o, c), r.registry)
        /\ never' = NeverRegister(o)
        /\ ret' = walk_registered(ret, o)
        /\ UNCHANGED <<plugin_configs, file, globals>>

\* registry.unregister(name) by another task, or by the shutdown() in
\* progress, while shutdown_all() is suspended
WalkUnregister(name) ==
    LET plugin == get_plugin(registry, name)
    IN  /\ ~WalkIdle
        /\ ret.active # None
        /\ ret.changes < MaxChanges
        /\ plugin # None
        /\ registry' = unregister(registry, name)
        /\ config' = Forget(config, registry')
        /\ never' = NeverUnregister(name, plugin)
        /\ ret' = walk_unregistered(ret, plugin)
        /\ UNCHANGED <<plugin_configs, file, globals>>

\* manager.register_plugin(plugin, config), plugin o constructed with c
RegisterPlugin(o, c, cfgArg) ==
    LET r == register_plugin([Manager EXCEPT !.config = Constructed(o, c)], o, cfgArg)
    IN  /\ Becomes(r.manager)
        /\ never' = IF r.raised THEN never ELSE NeverRegister(o)
        /\ UNCHANGED globals
        /\ ret' = [op |-> "register_plugin", plugin |-> o, given |-> cfgArg.given,
                   value |-> cfgArg.value, raised |-> r.raised]

\* manager.enable_plugin(name)
EnablePlugin(name) ==
    /\ Becomes(enable_plugin(Manager, name))
    /\ UNCHANGED never
    /\ UNCHANGED globals
    /\ ret' = [op |-> "enable_plugin", name |-> name,
               plugin |-> get_plugin(registry, name)]

\* manager.disable_plugin(name)
DisablePlugin(name) ==
    /\ Becomes(disable_plugin(Manager, name))
    /\ UNCHANGED never
    /\ UNCHANGED globals
    /\ ret' = [op |-> "disable_plugin", name |-> name,
               plugin |-> get_plugin(registry, name)]

\* manager.set_plugin_priority(name, priority)
SetPluginPriority(name, priority) ==
    /\ Becomes(set_plugin_priority(Manager, name, priority))
    /\ UNCHANGED never
    /\ UNCHANGED globals
    /\ ret' = [op |-> "set_plugin_priority", name |-> name, priority |-> priority,
               plugin |-> get_plugin(registry, name),
               before |-> registry, config_before |-> config]

\* one of enable_plugin, disable_plugin, set_plugin_priority, called while
\* the configuration file cannot be written
ToggleDenied(op, name, priority) ==
    LET r == toggle_denied(Manager, op, name, priority)
    IN  /\ Becomes(r.manager)
        /\ UNCHANGED never
        /\ UNCHANGED globals
        /\ ret' = [op |-> "save_denied", call |-> op, name |-> name,
                   priority |-> priority, plugin |-> get_plugin(registry, name),
                   raised |-> r.raised]

\* one of the manager's four process_* methods on a record
Process(method, data) ==
    LET r == IF method = "process_agent_config" THEN process_agent_config(Manager, data)
             ELSE IF method = "process_generate_request"
                  THEN process_generate_request(Manager, data)
             ELSE IF method = "process_generate_response"
                  THEN process_generate_response(Manager, data)
             ELSE process_chat_message(Manager, data)
    IN  /\ UNCHANGED <<config, registry, plugin_configs, file, never, globals>>
        /\ ret' = [op |-> "process", method |-> method, data |-> data,
                   result |-> r.result, calls |-> r.calls]

\* registry.execute_hook(hook_name, data) while the callbacks of the plugins
\* in raising raise
ExecuteHookFailing(hook_name, data, raising) ==
    LET r == execute_hook_failing(registry, config, hook_name, data, raising)
    IN  /\ UNCHANGED <<config, registry, plugin_configs, file, never, globals>>
        /\ ret' = [op |-> "hook_failing", via |-> "execute_hook", hook_name |-> hook_name,
                   raising |-> raising, calls |-> r.calls, raised |-> r.raised]

\* one of the manager's process_* methods while the callbacks of the plugins
\* in raising raise
ProcessFailing(method, data, raising) ==
    LET r == process_failing(Manager, method, data, raising)
    IN  /\ UNCHANGED <<config, registry, plugin_configs, file, never, globals>>
        /\ ret' = [op |-> "hook_failing", via |-> method,
                   hook_name |-> IF method = "process_agent_config" THEN "agent_init"
                                 ELSE IF method = "process_generate_request"
                                      THEN "generate_request"
                                 ELSE IF method = "process_generate_response"
                                      THEN "generate_response"
                                 ELSE "chat_message",
                   raising |-> raising, calls |-> r.calls, raised |-> r.raised]

\* manager.save_config()
SaveConfig ==
    /\ Becomes(save_config(Manager))
    /\ UNCHANGED never
    /\ UNCHANGED globals
    /\ ret' = [op |-> "save_config"]

\* manager.load_config()
LoadConfig ==
    /\ Becomes(load_config(Manager))
    /\ UNCHANGED never
    /\ UNCHANGED globals
    /\ ret' = [op |-> "load_config"]

\* explicit config arguments of register_plugin: the empty mapping, one that
\* disables, and one that sets the highest priority and a key ("top_k") that
\* the configuration object of the plugins does not expose
ExplicitConfigs ==
    {EmptyDict, DictSet(EmptyDict, "enabled", FALSE),
     DictSet(DictSet(EmptyDict, "priority", MaxPriority), "top_k", 0)}

\* the configurations a plugin handed to register_plugin with or without a
\* config argument was constructed with: the default one, or disabled with
\* the highest priority
ExplicitlyConfigured(o) ==
    IF IsRegistered(registry, o) THEN {config[o]}
    ELSE {DefaultConfig, [enabled |-> FALSE, priority |-> MaxPriority]}

\* the plugins of the registry, in the order of the name index
RegisteredObjs == {registry.plugins[i][2] : i \in DOMAIN registry.plugins}

\* The registry used directly: registrations of plugins constructed with any
\* configuration, removals and hook executions.
Next ==
    \/ \E o \in Objs : \E c \in ConfigsOf(o) : Register(o, c)
    \/ \E name \in Names : Unregister(name)
    \/ \E h \in CallableHooks, data \in Records : ExecuteHook(h, data)

Spec == Init /\ [][Next]_vars

\* The registry used directly: registrations and removals alone.
NextRegistration ==
    \/ \E o \in Objs : \E c \in ConfigsOf(o) : Register(o, c)
    \/ \E name \in Names : Unregister(name)

SpecRegistration == Init /\ [][NextRegistration]_vars

\* The registry used directly, with shutdowns in which any set of the
\* registered plugins fails.
NextShutdown ==
    \/ \E o \in Objs : \E c \in ConfigsOf(o) : Register(o, c)
    \/ \E name \in Names : Unregister(name)
    \/ \E raising \in SUBSET RegisteredObjs : ShutdownAll(raising)

SpecShutdown == Init /\ [][NextShutdown]_vars

\* The registry used directly, with bulk initialization and shutdown.  The
\* two loops go over the name index and read the enabled flag only, so the
\* plugins are constructed enabled or disabled with the default priority.
\* One failing initialize() or shutdown() per call: the first failing
\* initialize() ends the call.
DefaultPriorityConfigs(o) == {c \in ConfigsOf(o) : c.priority = DefaultConfig.priority}
NextLifecycle ==
    \/ \E o \in Objs : \E c \in DefaultPriorityConfigs(o) : Register(o, c)
    \/ \E name \in Names : Unregister(name)
    \/ \E raising \in {{}} \cup {{o} : o \in RegisteredObjs} :
          \E meddler \in {None} \cup RegisteredObjs : InitializeAll(raising, meddler)
    \/ \E raising \in {{}} \cup {{o} : o \in RegisteredObjs} : ShutdownAll(raising)

SpecLifecycle == Init /\ [][NextLifecycle]_vars

\* The bulk calls one await at a time, between registrations and removals.
NextBulk ==
    \/ \E o \in Objs : \E c \in DefaultPriorityConfigs(o) : Idle /\ Register(o, c)
    \/ \E name \in Names : Idle /\ Unregister(name)
    \/ \E call \in {"initialize_all", "shutdown_all"} : BeginBulk(call)
    \/ BulkNext
    \/ \E plugin \in Objs, raises \in BOOLEAN : BulkComplete(plugin, raises)
    \/ BulkReturn

SpecBulk == Init /\ [][NextBulk]_vars

\* Tasks of one event loop: hook executions one chain entry at a time, and
\* registrations, removals, enabling and disabling by other tasks whenever the
\* event loop may run them.
NextTasks ==
    \/ \E h \in HookNames : BeginTraversal(h)
    \/ TraversalStep
    \/ \E o \in Objs : \E c \in DefaultConstructed(o) : TaskRegister(o, c)
    \/ \E name \in Names : TaskUnregister(name)
    \/ \E op \in {"enable_plugin", "disable_plugin"}, name \in Names : TaskToggle(op, name)

SpecTasks == Init /\ [][NextTasks]_vars

\* shutdown_all() one await at a time, with registrations and removals
\* between calls and while a call is suspended in a shutdown().
NextWalk ==
    \/ \E o \in Objs : \E c \in DefaultConstructed(o) : WalkIdle /\ Register(o, c)
    \/ \E name \in Names : WalkIdle /\ Unregister(name)
    \/ BeginWalk
    \/ WalkNext
    \/ WalkComplete
    \/ \E o \in Objs : \E c \in DefaultConstructed(o) : WalkRegister(o, c)
    \/ \E name \in Names : WalkUnregister(name)

SpecWalk == Init /\ [][NextWalk]_vars

\* the plugins directory is created
MakePluginsDir ==
    /\ ~globals.plugins_dir.exists
    /\ globals' = [globals EXCEPT !.plugins_dir.exists = TRUE]
    /\ UNCHANGED <<config, registry, plugin_configs, file, never>>
    /\ ret' = [op |-> "mkdir"]

\* a file is written into the plugins directory or a subdirectory of it
WritePluginFile(e) ==
    LET D == globals.plugins_dir
    IN  /\ D.exists
        /\ Len(D.entries) < MaxFiles
        /\ \A i \in DOMAIN D.entries : PathOf(D.entries[i]) # PathOf(e)
        /\ globals' = [globals EXCEPT !.plugins_dir.entries = Append(D.entries, e)]
        /\ UNCHANGED <<config, registry, plugin_configs, file, never>>
        /\ ret' = [op |-> "write_plugin_file", entry |-> e]

\* manager.discover_plugins(); a call that raises returns nothing
DiscoverPlugins ==
    LET r == discover_plugins(globals.plugins_dir, globals.modules)
    IN  /\ globals' = [globals EXCEPT !.modules = r.modules]
        /\ UNCHANGED <<config, registry, plugin_configs, file, never>>
        /\ ret' = [op |-> "discover_plugins", raised |-> r.raised,
                   result |-> IF r.raised THEN <<>> ELSE r.discovered,
                   executed |-> r.executed, modules_before |-> globals.modules]

\* Discovery over every plugins directory of up to MaxFiles entries, in
\* every scan order.
NextDiscover ==
    \/ MakePluginsDir
    \/ \E e \in Entries : WritePluginFile(e)
    \/ DiscoverPlugins

SpecDiscover == Init /\ [][NextDiscover]_vars

\* get_global_registry()
GetGlobalRegistry ==
    LET g == get_global_registry(globals)
    IN  /\ g.globals.registries <= MaxInstances
        /\ globals' = g.globals
        /\ UNCHANGED <<config, registry, plugin_configs, file, never>>
        /\ ret' = [op |-> "get_global_registry", result |-> g.result, before |-> globals]

\* get_global_manager(); the construction's load_config() reads the file
GetGlobalManager ==
    LET g == get_global_manager(globals)
    IN  /\ g.globals.registries <= MaxInstances
        /\ g.globals.managers <= MaxInstances
        /\ globals' = g.globals
        /\ plugin_configs' = IF globals.manager = None
                             THEN load_config(Manager).plugin_configs
                             ELSE plugin_configs
        /\ UNCHANGED <<config, registry, file, never>>
        /\ ret' = [op |-> "get_global_manager", result |-> g.result, before |-> globals]

\* PluginRegistry(), constructed by the caller
ConstructRegistry ==
    LET g == new_registry(globals)
    IN  /\ g.globals.registries <= MaxInstances
        /\ globals' = g.globals
        /\ UNCHANGED <<config, registry, plugin_configs, file, never>>
        /\ ret' = [op |-> "PluginRegistry", result |-> g.result, before |-> globals]

\* PluginManager(registry=arg), constructed by the caller
ConstructManager(arg) ==
    LET g == new_manager(globals, arg)
    IN  /\ g.globals.registries <= MaxInstances
        /\ g.globals.managers <= MaxInstances
        /\ globals' = g.globals
        /\ UNCHANGED <<config, registry, plugin_configs, file, never>>
        /\ ret' = [op |-> "PluginManager", result |-> g.result, wraps |-> g.registry,
                   before |-> globals]

\* the module-level register_plugin(plugin) of plugins.py: registers with
\* the global registry, whose content is the variable registry
RegisterGlobal(o, c) ==
    LET g == get_global_registry(globals)
        r == register(registry, Constructed(o, c), o)
    IN  /\ g.globals.registries <= MaxInstances
        /\ globals' = g.globals
        /\ registry' = r.registry
        /\ config' = Forget(Constructed(o, c), r.registry)
        /\ UNCHANGED <<plugin_configs, file>>
        /\ never' = IF r.raised THEN never ELSE NeverRegister(o)
        /\ ret' = [op |-> "register_plugin_global", plugin |-> o, raised |-> r.raised,
                   result |-> g.result, before |-> globals]

\* PluginManager(registry=PluginRegistry()): a fresh registry and a manager
\* on it
ConstructFresh ==
    LET reg == new_registry(globals)
        man == new_manager(reg.globals, reg.result)
    IN  /\ ~globals.fresh.made
        /\ man.globals.registries <= MaxInstances
        /\ man.globals.managers <= MaxInstances
        /\ globals' = [man.globals EXCEPT !.fresh =
                          [made |-> TRUE, manager |-> man.result, wraps |-> man.registry,
                           registry |-> NewRegistry, plugin_configs |-> EmptyDict]]
        /\ UNCHANGED <<config, registry, plugin_configs, file, never>>
        /\ ret' = [op |-> "PluginManager", result |-> man.result, wraps |-> man.registry,
                   before |-> globals]

\* the fresh manager wraps the global registry instance
WrapsGlobal == globals.fresh.wraps = globals.registry
\* the fresh manager and what it acts on, as one value: self.registry is the
\* instance it wraps, the plugin objects and the file at the default
\* config_path are the process's
FreshManager ==
    [config |-> config,
     registry |-> IF WrapsGlobal THEN registry ELSE globals.fresh.registry,
     plugin_configs |-> globals.fresh.plugin_configs,
     file |-> file]
\* the state after an operation of the fresh manager left manager value M
FreshBecomes(M) ==
    /\ registry' = IF WrapsGlobal THEN M.registry ELSE registry
    /\ globals' = [globals EXCEPT
                      !.fresh.registry = IF WrapsGlobal THEN @ ELSE M.registry,
                      !.fresh.plugin_configs = M.plugin_configs]
    /\ config' = [x \in Objs |->
                     IF IsRegistered(registry', x) \/ IsRegistered(globals'.fresh.registry, x)
                     THEN M.config[x] ELSE DefaultConfig]
    /\ file' = M.file
    /\ UNCHANGED <<plugin_configs, never>>

\* fresh.register_plugin(plugin): plugin o is the object the global registry
\* holds, or one constructed with the default configuration
FreshRegisterPlugin(o) ==
    LET known == IsRegistered(registry, o) \/ IsRegistered(globals.fresh.registry, o)
        M == [FreshManager EXCEPT !.config =
                 IF known THEN config ELSE [config EXCEPT ![o] = DefaultConfig]]
        r == register_plugin(M, o, NoConfig)
    IN  /\ globals.fresh.made
        /\ FreshBecomes(r.manager)
        /\ ret' = [op |-> "fresh", call |-> "register_plugin", plugin |-> o,
                   raised |-> r.raised, calls |-> <<>>]

\* fresh.enable_plugin(name) / disable_plugin(name) / set_plugin_priority(name,
\* priority)
FreshToggle(op, name, priority) ==
    LET M == IF op = "enable_plugin" THEN enable_plugin(FreshManager, name)
             ELSE IF op = "disable_plugin" THEN disable_plugin(FreshManager, name)
             ELSE set_plugin_priority(FreshManager, name, priority)
    IN  /\ globals.fresh.made
        /\ FreshBecomes(M)
        /\ ret' = [op |-> "fresh", call |-> op, plugin |-> get_plugin(FreshManager.registry, name),
                   raised |-> FALSE, calls |-> <<>>]

\* one of the fresh manager's process_* methods
FreshProcess(method, data) ==
    LET r == IF method = "process_agent_config" THEN process_agent_config(FreshManager, data)
             ELSE IF method = "process_generate_request"
                  THEN process_generate_request(FreshManager, data)
             ELSE IF method = "process_generate_response"
                  THEN process_generate_response(FreshManager, data)
             ELSE process_chat_message(FreshManager, data)
    IN  /\ globals.fresh.made
        /\ UNCHANGED <<config, registry, plugin_configs, file, never, globals>>
        /\ ret' = [op |-> "fresh", call |-> method, plugin |-> None,
                   raised |-> FALSE,
                   calls |-> [i \in DOMAIN r.calls |-> r.calls[i].plugin]]

\* fresh.initialize_all() / fresh.shutdown_all(), no plugin failing
FreshLifecycle(call) ==
    LET ran == IF call = "initialize_all"
               THEN LET r == manager_initialize_all(FreshManager, {}, None)
                    IN  SelectSeq([i \in DOMAIN r.seen |->
                                     IF r.seen[i].called THEN r.seen[i].plugin ELSE None],
                                  LAMBDA o : o # None)
               ELSE manager_shutdown_all(FreshManager, {}).calls
    IN  /\ globals.fresh.made
        /\ UNCHANGED <<config, registry, plugin_configs, file, never, globals>>
        /\ ret' = [op |-> "fresh", call |-> call, plugin |-> None,
                   raised |-> FALSE, calls |-> ran]

\* A manager on a registry of its own next to the global registry: plugins
\* are registered globally, then the fresh manager is constructed and used.
NextFresh ==
    \/ \E o \in {1, 2} : \E c \in DefaultConstructed(o) :
          ~globals.fresh.made /\ RegisterGlobal(o, c)
    \/ ConstructFresh
    \/ \E o \in {2, NumObjs} : FreshRegisterPlugin(o)
    \/ \E op \in {"enable_plugin", "disable_plugin", "set_plugin_priority"} :
          \E name \in Names, p \in Priorities : FreshToggle(op, name, p)
    \/ \E method \in ProcessMethods : FreshProcess(method, EmptyDict)
    \/ \E call \in {"initialize_all", "shutdown_all"} : FreshLifecycle(call)

SpecFresh == Init /\ [][NextFresh]_vars

\* The process-wide instances: accesses through get_global_registry,
\* get_global_manager and the module-level register_plugin, next to
\* instances the caller constructs.
NextGlobals ==
    \/ GetGlobalRegistry
    \/ GetGlobalManager
    \/ ConstructRegistry
    \/ \E arg \in 0..globals.registries : ConstructManager(arg)
    \/ \E o \in Objs : \E c \in DefaultConstructed(o) : RegisterGlobal(o, c)

SpecGlobals == Init /\ [][NextGlobals]_vars

\* The registry driven through the manager, with the persisted configuration:
\* two plugins of different names and a third object that shares the name of
\* the first.
ManagedObjs == {1, 2, NumObjs}
NextManager ==
    \/ \E o \in ManagedObjs : \E c \in ConfigsOf(o) : RegisterPlugin(o, c, NoConfig)
    \/ \E name \in Names : EnablePlugin(name)
    \/ \E name \in Names : DisablePlugin(name)
    \/ \E name \in Names, p \in Priorities : SetPluginPriority(name, p)
    \/ SaveConfig
    \/ LoadConfig

SpecManager == Init /\ [][NextManager]_vars

\* The manager's enable_plugin, disable_plugin and set_plugin_priority on
\* plugins constructed with the default configuration.
NextToggles ==
    \/ \E o \in ManagedObjs : \E c \in DefaultConstructed(o) : RegisterPlugin(o, c, NoConfig)
    \/ \E name \in Names : EnablePlugin(name)
    \/ \E name \in Names : DisablePlugin(name)
    \/ \E name \in Names, p \in Priorities : SetPluginPriority(name, p)

SpecToggles == Init /\ [][NextToggles]_vars

\* The three operations on a disk that denies every save, on plugins
\* constructed with the default configuration.
NextSaveDenied ==
    \/ \E o \in ManagedObjs : \E c \in DefaultConstructed(o) : RegisterPlugin(o, c, NoConfig)
    \/ \E op \in {"enable_plugin", "disable_plugin", "set_plugin_priority"} :
          \E name \in Names, p \in Priorities : ToggleDenied(op, name, p)

SpecSaveDenied == Init /\ [][NextSaveDenied]_vars

\* load_config() and save_config() around enable_plugin and disable_plugin
\* calls whose save is denied: the map and the file differ, and the map can
\* hold entries while there is no file.
NextLoad ==
    \/ \E o \in {1, 2} : \E c \in DefaultConstructed(o) : RegisterPlugin(o, c, NoConfig)
    \/ \E op \in {"enable_plugin", "disable_plugin"} :
          \E name \in Names : ToggleDenied(op, name, DefaultConfig.priority)
    \/ SaveConfig
    \/ LoadConfig

SpecLoad == Init /\ [][NextLoad]_vars

\* Registrations through the manager of plugins constructed with the default
\* configuration (the persisted priority is applied before the registry's
\* register), removals at the registry, and the manager's enable_plugin,
\* disable_plugin and set_plugin_priority.
NextChains ==
    \/ \E o \in ManagedObjs : \E c \in DefaultConstructed(o) : RegisterPlugin(o, c, NoConfig)
    \/ \E name \in Names : Unregister(name)
    \/ \E name \in Names : EnablePlugin(name)
    \/ \E name \in Names : DisablePlugin(name)
    \/ \E name \in Names, p \in Priorities : SetPluginPriority(name, p)

SpecChains == Init /\ [][NextChains]_vars

\* The same with two plugin objects of different names.
NextOrder ==
    \/ \E o \in {1, 2} : \E c \in DefaultConstructed(o) : RegisterPlugin(o, c, NoConfig)
    \/ \E name \in Names : Unregister(name)
    \/ \E name \in Names : EnablePlugin(name)
    \/ \E name \in Names : DisablePlugin(name)
    \/ \E name \in Names, p \in Priorities : SetPluginPriority(name, p)

SpecOrder == Init /\ [][NextOrder]_vars

\* Hook executions at the registry and through the manager's process_*
\* methods, over plugins registered enabled or disabled.
NextProcess ==
    \/ \E o \in Objs : \E c \in DefaultPriorityConfigs(o) : Register(o, c)
    \/ \E name \in Names : Unregister(name)
    \/ \E h \in CallableHooks, data \in Records : ExecuteHook(h, data)
    \/ \E method \in ProcessMethods, data \in Records : Process(method, data)

SpecProcess == Init /\ [][NextProcess]_vars

\* Hook executions in which the callbacks of any set of the registered
\* plugins raise, over plugins registered enabled or disabled.
NextHookFailure ==
    \/ \E o \in Objs : \E c \in DefaultPriorityConfigs(o) : Register(o, c)
    \/ \E name \in Names : Unregister(name)
    \/ \E h \in CallableHooks, raising \in SUBSET RegisteredObjs :
          ExecuteHookFailing(h, EmptyDict, raising)
    \/ \E method \in ProcessMethods, raising \in SUBSET RegisteredObjs :
          ProcessFailing(method, EmptyDict, raising)

SpecHookFailure == Init /\ [][NextHookFailure]_vars

\* disable_plugin followed by enable_plugin of the same name, on plugins
\* constructed with any configuration.
NextRestore ==
    \/ \E o \in ManagedObjs : \E c \in ConfigsOf(o) : RegisterPlugin(o, c, NoConfig)
    \/ \E name \in Names : Unregister(name)
    \/ \E name \in Names : DisablePluginFirst(name)
    \/ \E name \in Names : EnablePluginNext(name)

SpecRestore == Init /\ [][NextRestore]_vars

\* The manager's register_plugin with and without a config argument, and
\* removals through manager.registry: the persisted-configuration map is
\* filled by the config arguments, so a plugin can be registered while its
\* name has an entry.
NextRegisterPlugin ==
    \/ \E o \in ManagedObjs : \E c \in ExplicitlyConfigured(o) :
          RegisterPlugin(o, c, NoConfig)
    \/ \E o \in ManagedObjs, d \in ExplicitConfigs :
          \E c \in ExplicitlyConfigured(o) : RegisterPlugin(o, c, SomeConfig(d))
    \/ \E name \in Names : Unregister(name)

SpecRegisterPlugin == Init /\ [][NextRegisterPlugin]_vars

\* ---------------------------------------------------------------- properties
\* the plugins of a list of callback invocations, in invocation order
Called(calls) == [i \in DOMAIN calls |-> calls[i].plugin]
\* the place of plugin o in the name index: its place in registration order
\* among the registered plugins
IndexOf(R, o) == CHOOSE i \in DOMAIN R.plugins : R.plugins[i][2] = o
\* plugin o is an entry of some hook chain of R
InSomeChain(R, o) ==
    \E h \in HookNames : \E i \in DOMAIN R.hooks[h] : R.hooks[h][i][2] = o
\* registry R with the entries of plugin o taken out of the hook chains
ChainsWithout(R, o) ==
    [R EXCEPT !.hooks = [h \in HookNames |->
                            SelectSeq(R.hooks[h], LAMBDA e : e[2] # o)]]
\* the fields plugin o declares on model m
DeclaredOn(o, m) ==
    IF m \in DOMAIN get_schema_extensions_of(o)
    THEN get_schema_extensions_of(o)[m]
    ELSE EmptyDict

\* C1: register(p) while a plugin of the same name is registered fails with an
\* error and leaves the registry as it was: the name index still maps the
\* name to the first plugin, the second plugin is in none of the four hook
\* chains, and the schema-extension map is the one from before the call (it
\* has gained none of the second plugin's fields).
C1_DuplicateRegisterFails ==
    (ret.op = "register" /\ HasKey(ret.before.plugins, get_name(ret.plugin))) =>
        LET first == get_plugin(ret.before, get_name(ret.plugin))
        IN  /\ ret.raised
            /\ registry = ret.before
            /\ get_plugin(registry, get_name(ret.plugin)) = first
            /\ (ret.plugin # first => ~InSomeChain(registry, ret.plugin))
            /\ \A m \in Models :
                 get_schema_extensions(registry, m) = get_schema_extensions(ret.before, m)

\* a second plugin object that declares schema fields was refused because its
\* name was taken by another plugin, which had not declared those fields
C1_Witness ==
    /\ ret.op = "register"
    /\ ret.raised
    /\ ret.plugin # get_plugin(registry, get_name(ret.plugin))
    /\ DeclaredOn(ret.plugin, "GenerateRequest") # EmptyDict
    /\ OwnField(ret.plugin) \notin DOMAIN get_schema_extensions(registry, "GenerateRequest")

\* C2: for each of the four hook names, execute_hook invokes the callbacks of
\* exactly the registered, enabled plugins, each once, in descending order of
\* priority, and plugins of equal priority in the order they were registered.
\* (The registry's own operations never change a registered plugin's
\* priority; the order after the manager's set_plugin_priority is C10.)
C2_DescendingPriorityStableTies ==
    (ret.op = "execute_hook" /\ ret.hook_name \in HookNames) =>
        LET order == Called(ret.calls)
        IN  /\ {order[i] : i \in DOMAIN order} =
                   {o \in Objs : IsRegistered(registry, o) /\ config[o].enabled}
            /\ \A i, j \in DOMAIN order : i < j =>
                 /\ config[order[i]].priority >= config[order[j]].priority
                 /\ (config[order[i]].priority = config[order[j]].priority =>
                        IndexOf(registry, order[i]) < IndexOf(registry, order[j]))

\* two enabled plugins were invoked, the one registered later first
C2_Witness ==
    /\ ret.op = "execute_hook"
    /\ ret.hook_name \in HookNames
    /\ Len(ret.calls) = 2
    /\ IndexOf(registry, ret.calls[1].plugin) > IndexOf(registry, ret.calls[2].plugin)
    /\ config[ret.calls[1].plugin].priority > config[ret.calls[2].plugin].priority

\* C3: execute_hook(h, r) is the composition of the enabled plugins' callbacks
\* for h in chain order: the plugins invoked are the enabled entries of the
\* chain in chain order, the first receives r, every later one receives
\* exactly what the one before it returned, and the result is what the last
\* one returned.
C3_ChainComposition ==
    (ret.op = "execute_hook" /\ ret.hook_name \in HookNames) =>
        LET h == ret.hook_name
            calls == ret.calls
            n == Len(calls)
            enabledEntries == SelectSeq(registry.hooks[h], LAMBDA e : config[e[2]].enabled)
        IN  /\ Called(calls) = [i \in DOMAIN enabledEntries |-> enabledEntries[i][2]]
            /\ \A i \in 1..n : calls[i].callback = CallbackName(h)
            /\ (n = 0 => ret.result = ret.data)
            /\ (n > 0 => /\ calls[1].arg = ret.data
                         /\ ret.result = Dispatch(h, calls[n].plugin, calls[n].arg))
            /\ \A i \in 1..(n - 1) :
                 calls[i + 1].arg = Dispatch(h, calls[i].plugin, calls[i].arg)

\* the scenario of the claim: A registered first with the lower priority, B
\* second with the higher one; generate_request ran B then A and the result
\* holds the keys of both
C3_Witness ==
    /\ ret.op = "execute_hook"
    /\ ret.hook_name = "generate_request"
    /\ Len(ret.calls) = 2
    /\ IndexOf(registry, ret.calls[1].plugin) = 2
    /\ IndexOf(registry, ret.calls[2].plugin) = 1
    /\ {OwnField(ret.calls[1].plugin), OwnField(ret.calls[2].plugin)} \subseteq DOMAIN ret.result
    /\ ret.calls[2].arg # ret.data

\* C4: after disable_plugin(name) on a registered plugin, execute_hook for
\* every hook name and record invokes no callback of that plugin and gives the
\* result of the chains without it, while list_plugins() still lists the
\* plugin and get_plugin(name) still returns it.
C4_DisabledSkippedStillListed ==
    (ret.op = "disable_plugin" /\ ret.plugin # None) =>
        /\ \A h \in CallableHooks, d \in Records :
             LET r == execute_hook(registry, config, h, d)
             IN  /\ \A i \in DOMAIN r.calls : r.calls[i].plugin # ret.plugin
                 /\ r = execute_hook(ChainsWithout(registry, ret.plugin), config, h, d)
        /\ \E i \in DOMAIN manager_list_plugins(Manager) :
             manager_list_plugins(Manager)[i].name = ret.name
        /\ \E i \in DOMAIN list_plugins(registry) : list_plugins(registry)[i] = ret.name
        /\ get_plugin(registry, ret.name) = ret.plugin

\* a plugin that was enabled and ahead of another enabled plugin in the
\* chains has been disabled
C4_Witness ==
    /\ ret.op = "disable_plugin"
    /\ ret.plugin # None
    /\ Len(registry.hooks["generate_request"]) = 2
    /\ registry.hooks["generate_request"][1][2] = ret.plugin
    /\ config[registry.hooks["generate_request"][2][2]].enabled
    /\ Len(execute_hook(registry, config, "generate_request", EmptyDict).calls) = 1

C6_SchemaMergeLaterWins ==
    (ret.op = "register" /\ ~ret.raised) =>
        \A m \in Models :
            LET after == get_schema_extensions(registry, m)
                earlier == get_schema_extensions(ret.before, m)
                own == DeclaredOn(ret.plugin, m)
            IN  /\ DOMAIN after = (DOMAIN earlier) \cup (DOMAIN own)
                /\ \A f \in DOMAIN own : after[f] = own[f]
                /\ \A f \in (DOMAIN earlier) \ (DOMAIN own) : after[f] = earlier[f]

\* P2 was registered after a registered P1 that had declared the field
\* "shared" and a field of its own on the same model
C6_Witness ==
    /\ ret.op = "register"
    /\ ~ret.raised
    /\ "shared" \in DOMAIN DeclaredOn(ret.plugin, "GenerateRequest")
    /\ \E p1 \in Objs \ {ret.plugin} :
         /\ IsRegistered(ret.before, p1)
         /\ "shared" \in DOMAIN get_schema_extensions(ret.before, "GenerateRequest")
         /\ get_schema_extensions(ret.before, "GenerateRequest")["shared"]
                = FieldSpec(p1, "shared")
         /\ OwnField(p1) \in DOMAIN get_schema_extensions(registry, "GenerateRequest")
    /\ get_schema_extensions(registry, "GenerateRequest")["shared"]
           = FieldSpec(ret.plugin, "shared")

\* a new manager M2 on the configuration file as it is now, after its
\* load_config()
Reloaded == load_config(NewManager([o \in Objs |-> DefaultConfig], file))

\* C7 as stated: after save_config() on M1, a default-configured plugin of the
\* name of any plugin registered in M1, registered in a new manager M2 that
\* loaded the file, has the enabled and priority values the plugin has in M1.
C7_RoundTripLiveValues ==
    ret.op = "save_config" =>
        \A o \in Objs : IsRegistered(registry, o) =>
            LET m2 == register_plugin(Reloaded, o, NoConfig).manager
            IN  /\ m2.config[o].enabled = config[o].enabled
                /\ m2.config[o].priority = config[o].priority

\* C7, amended: after save_config() on M1, load_config() on a new manager M2
\* yields M1's persisted-configuration map (the same entries with the same
\* enabled and priority values), and registering a default-configured plugin
\* whose name has an entry gives it the enabled/priority values of the entry,
\* the defaults for the keys the entry lacks.
C7_RoundTripPersistedValues ==
    ret.op = "save_config" =>
        /\ Reloaded.plugin_configs = plugin_configs
        /\ \A o \in Objs : get_name(o) \in DOMAIN plugin_configs =>
             LET entry == plugin_configs[get_name(o)]
                 m2 == register_plugin(Reloaded, o, NoConfig)
             IN  /\ ~m2.raised
                 /\ \A k \in {"enabled", "priority"} :
                      m2.manager.config[o][k]
                          = IF k \in DOMAIN entry THEN entry[k] ELSE DefaultConfig[k]

\* the map saved holds, for a registered plugin, a disabled flag and a
\* priority that is not the default
C7_Witness ==
    /\ ret.op = "save_config"
    /\ \E o \in Objs :
         /\ IsRegistered(registry, o)
         /\ get_name(o) \in DOMAIN plugin_configs
         /\ DOMAIN plugin_configs[get_name(o)] = {"enabled", "priority"}
         /\ ~plugin_configs[get_name(o)]["enabled"]
         /\ plugin_configs[get_name(o)]["priority"] # DefaultConfig.priority

\* C8: shutdown_all(), whichever registered plugins' shutdown() raise an
\* exception, calls shutdown() on every registered plugin exactly once, in
\* the order of the name index, and returns normally.
C8_ShutdownIsolatesFailures ==
    ret.op = "shutdown_all" =>
        /\ ~ret.raised
        /\ ret.calls = [i \in DOMAIN registry.plugins |-> registry.plugins[i][2]]
        /\ \A o \in Objs : IsRegistered(registry, o) =>
             Cardinality({i \in DOMAIN ret.calls : ret.calls[i] = o}) = 1
        /\ Len(ret.reported) = Cardinality(ret.raising)

\* the first of two registered plugins failed in a shutdown_all
C8_Witness ==
    /\ ret.op = "shutdown_all"
    /\ Len(registry.plugins) = 2
    /\ registry.plugins[1][2] \in ret.raising
    /\ registry.plugins[2][2] \notin ret.raising

\* C9: execute_hook with a hook name that is not one of the four returns the
\* record it was given and invokes no callback; with one of the four names
\* and a chain that is empty or holds disabled plugins only, it returns the
\* record it was given too.
C9_UnknownHookOrEmptyChain ==
    ret.op = "execute_hook" =>
        /\ (ret.hook_name \notin HookNames =>
                /\ ret.result = ret.data
                /\ ret.calls = <<>>)
        /\ ((/\ ret.hook_name \in HookNames
             /\ \A i \in DOMAIN registry.hooks[ret.hook_name] :
                  ~config[registry.hooks[ret.hook_name][i][2]].enabled) =>
                /\ ret.result = ret.data
                /\ ret.calls = <<>>)

\* an unrecognized hook name was executed on a record that is not empty while
\* an enabled plugin was registered
C9_Witness ==
    /\ ret.op = "execute_hook"
    /\ ret.hook_name \notin HookNames
    /\ ret.data # EmptyDict
    /\ \E o \in Objs : IsRegistered(registry, o) /\ config[o].enabled

\* C10: set_plugin_priority(name, p) on a registered plugin sets the plugin's
\* live priority to p and leaves the four hook chains as they were (same
\* entries, same order, same recorded priorities), so execute_hook invokes the
\* same plugins in the same order as before the call.
C10_SetPriorityKeepsChains ==
    (ret.op = "set_plugin_priority" /\ ret.plugin # None) =>
        /\ config[ret.plugin].priority = ret.priority
        /\ registry.hooks = ret.before.hooks
        /\ \A h \in CallableHooks, d \in Records :
             Called(execute_hook(registry, config, h, d).calls)
                 = Called(execute_hook(ret.before, ret.config_before, h, d).calls)

\* the priority of the second of two enabled plugins of a chain was raised
\* above the priority of the first
C10_Witness ==
    /\ ret.op = "set_plugin_priority"
    /\ ret.plugin # None
    /\ Len(registry.hooks["agent_init"]) = 2
    /\ registry.hooks["agent_init"][2][2] = ret.plugin
    /\ config[ret.plugin].priority > config[registry.hooks["agent_init"][1][2]].priority
    /\ config[ret.plugin].enabled
    /\ config[registry.hooks["agent_init"][1][2]].enabled

\* the place of plugin o among the invocations calls, 0 when it is not invoked
PlaceIn(calls, o) ==
    IF \E i \in DOMAIN calls : calls[i].plugin = o
    THEN CHOOSE i \in DOMAIN calls : calls[i].plugin = o
    ELSE 0

\* C11: after any sequence of manager operations, set_plugin_priority
\* included, every hook chain is consistent with the live priorities: of any
\* two registered, enabled plugins the one whose current config.priority is
\* higher is invoked earlier by execute_hook, for every hook name.
C11_OrderFollowsLivePriority ==
    \A h \in HookNames :
        LET calls == execute_hook(registry, config, h, EmptyDict).calls
        IN  \A a, b \in Objs :
                (/\ IsRegistered(registry, a) /\ config[a].enabled
                 /\ IsRegistered(registry, b) /\ config[b].enabled
                 /\ config[a].priority > config[b].priority)
                    => PlaceIn(calls, a) < PlaceIn(calls, b)

\* the three operations of the manager that change one value of a plugin
ToggleOps == {"enable_plugin", "disable_plugin", "set_plugin_priority"}
\* the configuration key a toggle writes, and the value it writes
ToggleKey(r) == IF r.op = "set_plugin_priority" THEN "priority" ELSE "enabled"
ToggleValue(r) ==
    IF r.op = "enable_plugin" THEN TRUE
    ELSE IF r.op = "disable_plugin" THEN FALSE
    ELSE r.priority

\* C12: enable_plugin(name) / disable_plugin(name) / set_plugin_priority(name,
\* p) on a registered plugin set the live value (and no other live value),
\* record the same value under the name in the persisted-configuration map,
\* creating the entry if absent and keeping its other keys and the other
\* entries, and write the whole map to the configuration file: on return the
\* file exists and its content is the in-memory map.
C12_ToggleSetsRecordsSaves ==
    [][(ret'.op \in ToggleOps /\ ret'.plugin # None) =>
        LET name == ret'.name
            key == ToggleKey(ret')
            old == IF name \in DOMAIN plugin_configs THEN plugin_configs[name] ELSE EmptyDict
        IN  /\ config'[ret'.plugin][key] = ToggleValue(ret')
            /\ \A o \in Objs, k \in DOMAIN DefaultConfig :
                 (o # ret'.plugin \/ k # key) => config'[o][k] = config[o][k]
            /\ DOMAIN plugin_configs' = (DOMAIN plugin_configs) \cup {name}
            /\ DOMAIN plugin_configs'[name] = (DOMAIN old) \cup {key}
            /\ plugin_configs'[name][key] = ToggleValue(ret')
            /\ \A k \in (DOMAIN old) \ {key} : plugin_configs'[name][k] = old[k]
            /\ \A n \in (DOMAIN plugin_configs) \ {name} :
                 plugin_configs'[n] = plugin_configs[n]
            /\ file'.exists
            /\ file'.text = json_dump(plugin_configs')
            /\ json_load(file'.text) = plugin_configs'
    ]_vars

\* set_plugin_priority found its plugin and added the priority to an entry
\* that held the enabled flag, while another name has an entry too
C12_Witness ==
    /\ ret.op = "set_plugin_priority"
    /\ ret.plugin # None
    /\ ret.priority # DefaultConfig.priority
    /\ DOMAIN plugin_configs[ret.name] = {"enabled", "priority"}
    /\ \E n \in DOMAIN plugin_configs : n # ret.name
    /\ file.text = json_dump(plugin_configs)

\* C13: enable_plugin, disable_plugin and set_plugin_priority with a name that
\* is not registered do nothing: no live configuration changes, the
\* persisted-configuration map keeps its entries, the configuration file is
\* not written (it stays absent if it was), and the registry is untouched.
C13_UnknownNameNoOp ==
    [][(ret'.op \in ToggleOps /\ ret'.plugin = None) =>
        /\ config' = config
        /\ plugin_configs' = plugin_configs
        /\ file' = file
        /\ registry' = registry
    ]_vars

\* a toggle named a plugin that is not registered while another plugin was
\* registered and no configuration file existed
C13_Witness ==
    /\ ret.op \in ToggleOps
    /\ ret.plugin = None
    /\ ~HasKey(registry.plugins, ret.name)
    /\ registry.plugins # <<>>
    /\ ~file.exists

\* C14: register_plugin(plugin, config) with any explicitly supplied config
\* mapping, the empty mapping included, replaces the persisted-configuration
\* entry of the plugin's name with config, and the values persisted before
\* are not applied to the plugin's live configuration: a plugin that is
\* registered after the call has the configuration it was handed over with.
C14_ExplicitConfigReplacesEntry ==
    [][(ret'.op = "register_plugin" /\ ret'.given) =>
        LET o == ret'.plugin
            d == ret'.value
        IN  /\ get_name(o) \in DOMAIN plugin_configs'
            /\ plugin_configs'[get_name(o)] = d
            /\ \A c \in ExplicitlyConfigured(o) :
                 (RegisterPlugin(o, c, SomeConfig(d)) /\ IsRegistered(registry', o))
                     => config'[o] = c
    ]_vars

\* the tag <<priority, o>> sits in chain where a stable descending sort puts
\* an entry appended last: after every entry of at least that priority and
\* before every entry of a lower one
EntersAt(chain, priority, o) ==
    \E i \in DOMAIN chain :
        /\ chain[i] = <<priority, o>>
        /\ \A j \in DOMAIN chain : j < i => chain[j][1] >= priority
        /\ \A j \in DOMAIN chain : j > i => chain[j][1] < priority

\* C15: register_plugin(plugin) without config, when the name has a persisted
\* entry, sets on the live configuration exactly the persisted keys the
\* configuration object exposes (enabled, priority), leaves its other values
\* as constructed, ignores the other persisted keys and leaves the entry as
\* it is; this happens before the registration, so the plugin enters every
\* hook chain with the persisted priority, at the place that priority gives.
C15_PersistedAppliedBeforeRegister ==
    [][(/\ ret'.op = "register_plugin"
        /\ ~ret'.given
        /\ get_name(ret'.plugin) \in DOMAIN plugin_configs) =>
        LET o == ret'.plugin
            entry == plugin_configs[get_name(o)]
        IN  \A c \in ExplicitlyConfigured(o) :
                RegisterPlugin(o, c, NoConfig) =>
                    /\ plugin_configs' = plugin_configs
                    /\ IsRegistered(registry', o) =>
                         /\ DOMAIN config'[o] = DOMAIN c
                         /\ \A k \in DOMAIN c :
                              config'[o][k] = IF k \in DOMAIN entry THEN entry[k] ELSE c[k]
                    /\ ~ret'.raised =>
                         \A h \in HookNames :
                            EntersAt(registry'.hooks[h],
                                     IF "priority" \in DOMAIN entry
                                     THEN entry["priority"] ELSE c.priority,
                                     o)
    ]_vars

\* a plugin constructed with the default priority was registered second
\* while its name had an entry with the highest priority and a key its
\* configuration does not expose; it is first in the chains
C15_Witness ==
    /\ ret.op = "register_plugin"
    /\ ~ret.given
    /\ ~ret.raised
    /\ get_name(ret.plugin) \in DOMAIN plugin_configs
    /\ DOMAIN plugin_configs[get_name(ret.plugin)] = {"priority", "top_k"}
    /\ config[ret.plugin] = [enabled |-> TRUE, priority |-> MaxPriority]
    /\ IndexOf(registry, ret.plugin) = 2
    /\ registry.hooks["chat_message"][1][2] = ret.plugin

\* the plugins of the name index, in its order
IndexOrder(R) == [i \in DOMAIN R.plugins |-> R.plugins[i][2]]

\* C16: one call of initialize_all() reaches the registered plugins in the
\* order of the name index, each at most once, and calls initialize() on a
\* plugin exactly when the plugin is enabled at the moment the iteration
\* reaches it, so never on a disabled one; a call that returns has reached
\* every registered plugin.  One call of shutdown_all() calls shutdown()
\* exactly once on every registered plugin, enabled or disabled.
C16_InitializeEnabledShutdownAll ==
    /\ ret.op = "initialize_all" =>
         /\ Len(ret.seen) <= Len(registry.plugins)
         /\ \A i \in DOMAIN ret.seen :
              /\ ret.seen[i].plugin = IndexOrder(registry)[i]
              /\ ret.seen[i].called <=> ret.seen[i].enabled
         /\ ~ret.raised => Len(ret.seen) = Len(registry.plugins)
    /\ ret.op = "shutdown_all" =>
         /\ ret.calls = IndexOrder(registry)
         /\ \A o \in Objs : IsRegistered(registry, o) =>
              Cardinality({i \in DOMAIN ret.calls : ret.calls[i] = o}) = 1

\* the initialize() of the first plugin disabled the second, which was
\* enabled when the call began: the call skipped the second
C16_Witness ==
    /\ ret.op = "initialize_all"
    /\ ~ret.raised
    /\ Len(ret.seen) = 2
    /\ ret.seen[1].called
    /\ ret.meddler = ret.seen[1].plugin
    /\ ~ret.seen[2].called
    /\ ~config[ret.seen[2].plugin].enabled

\* C17: when the initialize() of an enabled plugin raises during
\* initialize_all(), the failure reaches the caller, the failing plugin is
\* the last one the call reached (no plugin later in registration order has
\* initialize() invoked), and the plugins before it were initialized if
\* enabled and are left so: the call ends there.
C17_InitializeFailurePropagates ==
    ret.op = "initialize_all" =>
        \A i \in DOMAIN ret.seen :
            (ret.seen[i].called /\ ret.seen[i].plugin \in ret.raising) =>
                /\ ret.raised
                /\ i = Len(ret.seen)
                /\ i = IndexOf(registry, ret.seen[i].plugin)
                /\ \A j \in 1..(i - 1) :
                     /\ ret.seen[j].plugin = IndexOrder(registry)[j]
                     /\ ret.seen[j].called <=> ret.seen[j].enabled

\* the initialize() of the first of two enabled plugins failed
C17_Witness ==
    /\ ret.op = "initialize_all"
    /\ ret.raised
    /\ Len(registry.plugins) = 2
    /\ Len(ret.seen) = 1
    /\ ret.seen[1].plugin \in ret.raising
    /\ config[registry.plugins[2][2]].enabled

\* C18: after any sequence of register and unregister, list_plugins() of the
\* registry is the names of the registered plugins, none twice, in the order
\* of their most recent registration: a successful register appends the
\* name, a refused one changes nothing, unregister takes the name out, and
\* the names are those of the plugins in the hook chains.  list_plugins() of
\* the manager gives one snapshot per such name, in the same order, with the
\* plugin's live enabled and priority values.
C18_ListInRegistrationOrder ==
    [][LET before == list_plugins(registry)
           after == list_plugins(registry')
           snapshots == manager_list_plugins(Manager')
       IN  /\ (ret'.op = "register" /\ ~ret'.raised) =>
                after = Append(before, get_name(ret'.plugin))
           /\ (ret'.op = "register" /\ ret'.raised) => after = before
           /\ ret'.op = "unregister" =>
                after = SelectSeq(before, LAMBDA n : n # ret'.name)
           /\ \A i, j \in DOMAIN after : i # j => after[i] # after[j]
           /\ {after[i] : i \in DOMAIN after} =
                  {get_name(registry'.hooks["agent_init"][i][2]) :
                      i \in DOMAIN registry'.hooks["agent_init"]}
           /\ DOMAIN snapshots = DOMAIN after
           /\ \A i \in DOMAIN after :
                LET plugin == get_plugin(registry', after[i])
                IN  /\ snapshots[i].name = after[i]
                    /\ snapshots[i].enabled = config'[plugin].enabled
                    /\ snapshots[i].priority = config'[plugin].priority
    ]_vars

\* the second name was registered before the first, by a disabled plugin, and
\* the first by a plugin of another priority
C18_Witness ==
    /\ ret.op = "register"
    /\ ~ret.raised
    /\ list_plugins(registry) = <<PluginName(2), PluginName(1)>>
    /\ ~manager_list_plugins(Manager)[1].enabled
    /\ manager_list_plugins(Manager)[2].priority # manager_list_plugins(Manager)[1].priority

\* C19: registration uniqueness holds until unregistration: a register is
\* refused exactly when its name is registered, and then get_plugin(name)
\* still returns the plugin that holds the name; after unregister(name) the
\* name is free, a register of any plugin of that name succeeds, and a
\* successful register makes its plugin the one get_plugin(name) returns.
C19_UniqueUntilUnregistered ==
    /\ ret.op = "register" =>
         LET name == get_name(ret.plugin)
         IN  /\ ret.raised <=> HasKey(ret.before.plugins, name)
             /\ ret.raised => get_plugin(registry, name) = get_plugin(ret.before, name)
             /\ ~ret.raised => get_plugin(registry, name) = ret.plugin
             /\ Cardinality({i \in DOMAIN registry.plugins : registry.plugins[i][1] = name}) = 1
    /\ ret.op = "unregister" =>
         /\ ~HasKey(registry.plugins, ret.name)
         /\ get_plugin(registry, ret.name) = None
         /\ \A o \in Objs : get_name(o) = ret.name =>
              LET r == register(registry, config, o)
              IN  /\ ~r.raised
                  /\ get_plugin(r.registry, ret.name) = o

\* a name that another plugin held earlier (its schema fields are still in
\* the extension map) was registered again by a new plugin
C19_Witness ==
    /\ ret.op = "register"
    /\ ~ret.raised
    /\ get_plugin(registry, get_name(ret.plugin)) = ret.plugin
    /\ \E earlier \in Objs \ {ret.plugin} :
         /\ get_name(earlier) = get_name(ret.plugin)
         /\ OwnField(earlier) \in DOMAIN get_schema_extensions(registry, "GenerateRequest")


\* C20: get_global_registry() and get_global_manager() each construct their
\* instance on the first call only and return that same instance on every
\* later call; the global manager wraps the global registry, and
\* load_config() is performed exactly once, at the global manager's
\* construction.  A first call adds one instance of its class and returns it;
\* a later call returns the instance held before and changes nothing; once
\* the global manager exists it wraps the global registry and has been loaded
\* once, and before that it has not been loaded.
C20_GlobalsConstructedOnce ==
    /\ ret.op = "get_global_registry" =>
         /\ ret.result # None
         /\ ret.result = globals.registry
         /\ IF ret.before.registry = None
            THEN /\ globals.registries = ret.before.registries + 1
                 /\ ret.result = globals.registries
                 /\ globals.managers = ret.before.managers
            ELSE /\ ret.result = ret.before.registry
                 /\ globals = ret.before
    /\ ret.op = "get_global_manager" =>
         /\ ret.result # None
         /\ ret.result = globals.manager
         /\ IF ret.before.manager = None
            THEN /\ globals.managers = ret.before.managers + 1
                 /\ ret.result = globals.managers
                 /\ globals.loads = ret.before.loads + 1
                 /\ globals.registries =
                      ret.before.registries + (IF ret.before.registry = None THEN 1 ELSE 0)
            ELSE /\ ret.result = ret.before.manager
                 /\ globals = ret.before
    /\ ret.op \in {"PluginRegistry", "PluginManager"} =>
         /\ globals.manager = ret.before.manager
         /\ globals.loads = ret.before.loads
         /\ ret.before.registry # None => globals.registry = ret.before.registry
    /\ IF globals.manager = None
       THEN globals.loads = 0 /\ globals.wraps = None
       ELSE /\ globals.loads = 1
            /\ globals.registry # None
            /\ globals.wraps = globals.registry

\* a later get_global_manager() call, in a process where the caller also
\* constructed a registry of its own before the global one
C20_Witness ==
    /\ ret.op = "get_global_manager"
    /\ ret.before.manager # None
    /\ ret.result = ret.before.manager
    /\ globals.registry = 2
    /\ globals.wraps = 2
    /\ globals.loads = 1

\* C21: an execute_hook call owns its own record value: the record object
\* passed in by the caller is not modified by the call, also when plugin
\* callbacks add or replace keys on the record they are handed.  After every
\* execute_hook the caller's record holds what it held when it was passed in.
C21_CallerRecordNotModified ==
    ret.op = "execute_hook" => ret.data_after = ret.data


\* C22: if save_config() fails while called from enable_plugin,
\* disable_plugin or set_plugin_priority, the failure propagates to the
\* caller of that operation and is not swallowed: the operation on a
\* registered plugin raises, after it has assigned the live value and
\* recorded it in the persisted-configuration map.  (On a name that is not
\* registered save_config() is not called and nothing is raised.)
C22_SaveFailurePropagates ==
    ret.op = "save_denied" =>
        /\ ret.raised <=> ret.plugin # None
        /\ ret.plugin # None =>
             /\ ToggleKey([op |-> ret.call]) \in DOMAIN plugin_configs[ret.name]
             /\ plugin_configs[ret.name][ToggleKey([op |-> ret.call])]
                    = ToggleValue([op |-> ret.call, priority |-> ret.priority])
             /\ config[ret.plugin][ToggleKey([op |-> ret.call])]
                    = ToggleValue([op |-> ret.call, priority |-> ret.priority])

\* a disable_plugin on a registered, enabled plugin failed in its save: the
\* plugin is disabled and the map records it, and no file has been written
C22_Witness ==
    /\ ret.op = "save_denied"
    /\ ret.call = "disable_plugin"
    /\ ret.plugin # None
    /\ ret.raised
    /\ ~config[ret.plugin].enabled
    /\ ~plugin_configs[ret.name]["enabled"]
    /\ ~file.exists


\* C23: within initialize_all and within shutdown_all the plugins'
\* initialize()/shutdown() calls are strictly sequential in registration
\* order: the call on one plugin has completed (returned or raised) before
\* the call on the next plugin starts, so no two of them are ever in progress
\* at the same time within one bulk call.  At every point of a bulk call at
\* most one call is in progress, the events are start, completion, start,
\* completion, ... with each completion that of the plugin just started, and
\* the plugins are started in the order of the name index.
C23_BulkCallsSequential ==
    ret.op = "bulk" =>
        LET ev == ret.events
        IN  /\ Cardinality(ret.active) <= 1
            /\ \A i \in DOMAIN ev :
                 IF i % 2 = 1
                 THEN ev[i][1] = "start"
                 ELSE /\ ev[i][1] \in {"returned", "raised"}
                      /\ ev[i][2] = ev[i - 1][2]
            /\ ret.active = IF Len(ev) % 2 = 1 THEN {ev[Len(ev)][2]} ELSE {}
            /\ \A i, j \in DOMAIN ev :
                 (i < j /\ ev[i][1] = "start" /\ ev[j][1] = "start") =>
                     IndexOf(registry, ev[i][2]) < IndexOf(registry, ev[j][2])

\* a shutdown_all in which the first plugin's shutdown() raised and the
\* second plugin's shutdown() started after it
C23_Witness ==
    /\ ret.op = "bulk"
    /\ ret.call = "shutdown_all"
    /\ Len(ret.events) = 3
    /\ ret.events[2][1] = "raised"
    /\ ret.events[3][1] = "start"
    /\ ret.events[3][2] # ret.events[1][2]


\* C24: load_config() when the configuration file does not exist raises no
\* error and leaves the manager's persisted-configuration map unchanged; when
\* the file exists, the map becomes exactly the file's content.  Either way
\* the file, the registry and the live configurations are as before.
C24_LoadReplacesOrKeeps ==
    [][ret'.op = "load_config" =>
          /\ plugin_configs' = IF file.exists THEN json_load(file.text) ELSE plugin_configs
          /\ file' = file
          /\ registry' = registry
          /\ config' = config]_vars

\* a load_config() from a file that exists has left a map whose flag for a
\* registered plugin is not the plugin's live flag: the map the manager held
\* (written by a toggle whose save was denied) was replaced by the file's
C24_Witness ==
    /\ ret.op = "load_config"
    /\ file.exists
    /\ plugin_configs = json_load(file.text)
    /\ \E o \in Objs :
         /\ IsRegistered(registry, o)
         /\ get_name(o) \in DOMAIN plugin_configs
         /\ plugin_configs[get_name(o)]["enabled"] # config[o].enabled


\* the files of the scan that discover_plugins is to load: .py files directly
\* in the directory whose name does not begin with an underscore
Eligible(D) ==
    SelectSeq(D.entries,
              LAMBDA e : e.suffix = "py" /\ ~e.nested /\ e.stem[1] # "_")
\* the place in seq of its first file whose code raises, Len(seq) + 1 if none
FirstFailing(seq) ==
    IF \E i \in DOMAIN seq : seq[i].fails
    THEN CHOOSE i \in DOMAIN seq : seq[i].fails /\ \A j \in 1..(i - 1) : ~seq[j].fails
    ELSE Len(seq) + 1

\* C25: discover_plugins() loads and returns a module identifier for every
\* source file directly in the plugins directory whose name does not begin
\* with an underscore, loads none whose name begins with an underscore, and
\* returns an empty sequence without error when the directory does not exist;
\* a failure while executing one discovered file propagates out of
\* discover_plugins and the files after it in the scan are not loaded.
C25_DiscoverLoadsEligible ==
    ret.op = "discover_plugins" =>
        LET D == globals.plugins_dir
            eligible == Eligible(D)
            k == FirstFailing(eligible)
        IN  /\ ~D.exists => ~ret.raised /\ ret.result = <<>> /\ ret.executed = <<>>
            /\ \A i \in DOMAIN ret.executed : ret.executed[i].stem[1] # "_"
            /\ ret.raised <=> k <= Len(eligible)
            /\ ~ret.raised =>
                 /\ ret.executed = eligible
                 /\ ret.result = [i \in DOMAIN eligible |-> module_name(eligible[i].stem)]
            /\ ret.raised => ret.executed = SubSeq(eligible, 1, k)
            /\ globals.modules = ret.modules_before \cup
                   {module_name(ret.executed[i].stem) : i \in DOMAIN ret.executed}

\* a discovery loaded a file with an underscore inside its name and passed
\* over one whose name begins with an underscore
C25_Witness ==
    /\ ret.op = "discover_plugins"
    /\ ~ret.raised
    /\ Len(ret.result) = 1
    /\ ret.executed[1].stem = <<"b", "_">>
    /\ \E i \in DOMAIN globals.plugins_dir.entries :
         LET e == globals.plugins_dir.entries[i]
         IN  e.stem = <<"_", "a">> /\ e.suffix = "py" /\ ~e.nested


\* C26: in every reachable state each of the four hook chains is sorted in
\* non-increasing order of the priority recorded in its entries (the priority
\* the plugin had when it was registered), and entries with equal recorded
\* priority are in registration order; this holds after any sequence of
\* register, unregister, enable, disable and set_plugin_priority.
C26_ChainsSortedByRecordedPriority ==
    \A h \in HookNames :
        LET chain == registry.hooks[h]
        IN  \A i, j \in DOMAIN chain : i < j =>
                /\ chain[i][1] >= chain[j][1]
                /\ (chain[i][1] = chain[j][1] =>
                       IndexOf(registry, chain[i][2]) < IndexOf(registry, chain[j][2]))

\* after a set_plugin_priority the plugin registered second is first in a
\* chain by its higher recorded priority while its live priority is the lower
\* one
C26_Witness ==
    /\ ret.op = "set_plugin_priority"
    /\ ret.plugin # None
    /\ Len(registry.hooks["chat_message"]) = 2
    /\ registry.hooks["chat_message"][1][1] > registry.hooks["chat_message"][2][1]
    /\ IndexOf(registry, registry.hooks["chat_message"][1][2]) = 2
    /\ config[registry.hooks["chat_message"][1][2]].priority
           < config[registry.hooks["chat_message"][2][2]].priority


\* a plugin object beyond the ones of the model
Further == NumObjs + 1
\* the place of plugin o in a chain, 0 when it has no entry
ChainPlace(chain, o) ==
    IF \E i \in DOMAIN chain : chain[i][2] = o
    THEN CHOOSE i \in DOMAIN chain : chain[i][2] = o
    ELSE 0

C28_RegisterTagsCurrentPriority ==
    /\ (ret.op = "register_plugin" /\ ~ret.raised) =>
         \A h \in HookNames :
             EntersAt(registry.hooks[h], config[ret.plugin].priority, ret.plugin)
    /\ (ret.op = "unregister" /\ ret.plugin # None) =>
         \A c \in PluginConfigs :
             LET r == register(registry, [config EXCEPT ![ret.plugin] = c], ret.plugin)
             IN  /\ ~r.raised
                 /\ \A h \in HookNames :
                      /\ EntersAt(r.registry.hooks[h], c.priority, ret.plugin)
                      /\ SelectSeq(r.registry.hooks[h], LAMBDA e : e[2] # ret.plugin)
                             = registry.hooks[h]

\* a plugin whose name had its priority set to the highest was registered
\* again and stands second in the chains, behind a plugin of the same
\* recorded priority that was registered before it
C28_Witness ==
    /\ ret.op = "register_plugin"
    /\ ~ret.raised
    /\ get_name(ret.plugin) \in DOMAIN plugin_configs
    /\ "priority" \in DOMAIN plugin_configs[get_name(ret.plugin)]
    /\ plugin_configs[get_name(ret.plugin)]["priority"] = MaxPriority
    /\ registry.hooks["agent_init"] =
           <<<<MaxPriority, registry.plugins[1][2]>>, <<MaxPriority, ret.plugin>>>>


\* C29: chain membership invariant: in every reachable state, each registered
\* plugin appears exactly once in each of the four hook chains, no plugin
\* absent from the name index appears in any chain, and the four chains hold
\* the same plugins in the same order.
C29_ChainMembership ==
    /\ \A h \in HookNames :
         LET chain == registry.hooks[h]
         IN  /\ \A o \in Objs : IsRegistered(registry, o) =>
                    Cardinality({i \in DOMAIN chain : chain[i][2] = o}) = 1
             /\ \A i \in DOMAIN chain : IsRegistered(registry, chain[i][2])
             /\ Len(chain) = Len(registry.plugins)
    /\ \A h1, h2 \in HookNames :
         [i \in DOMAIN registry.hooks[h1] |-> registry.hooks[h1][i][2]]
             = [i \in DOMAIN registry.hooks[h2] |-> registry.hooks[h2][i][2]]

\* after a removal and a new registration two plugins are registered and the
\* chains hold them against the order of the name index
C29_Witness ==
    /\ ret.op = "register_plugin"
    /\ ~ret.raised
    /\ Len(registry.plugins) = 2
    /\ registry.plugins[2][2] = ret.plugin
    /\ ret.plugin = NumObjs
    /\ \A h \in HookNames :
         /\ Len(registry.hooks[h]) = 2
         /\ registry.hooks[h][1][2] = ret.plugin


\* the callback that corresponds to a hook name, and the hook name a
\* process_* method stands for
CallbackFor(h) ==
    CASE h = "agent_init" -> "on_agent_init"
      [] h = "generate_request" -> "on_generate_request"
      [] h = "generate_response" -> "on_generate_response"
      [] h = "chat_message" -> "on_chat_message"
HookFor(method) ==
    CASE method = "process_agent_config" -> "agent_init"
      [] method = "process_generate_request" -> "generate_request"
      [] method = "process_generate_response" -> "generate_response"
      [] method = "process_chat_message" -> "chat_message"

\* C30: execute_hook(h, r) invokes on each enabled plugin only the callback
\* that corresponds to h (agent_init -> on_agent_init, generate_request ->
\* on_generate_request, generate_response -> on_generate_response,
\* chat_message -> on_chat_message) and never one of the other three;
\* process_agent_config, process_generate_request, process_generate_response
\* and process_chat_message return exactly what execute_hook returns for the
\* matching hook name.  (Every callback leaves its own name in the key "last"
\* of the record it returns.)
C30_MatchingCallbackAndPassThrough ==
    /\ (ret.op = "execute_hook" /\ ret.hook_name \in HookNames) =>
         LET calls == ret.calls
             n == Len(calls)
         IN  /\ {calls[i].plugin : i \in DOMAIN calls}
                    = {o \in Objs : IsRegistered(registry, o) /\ config[o].enabled}
             /\ \A i \in DOMAIN calls : calls[i].callback = CallbackFor(ret.hook_name)
             /\ \A i \in 1..(n - 1) :
                  calls[i + 1].arg["last"] = <<CallbackFor(ret.hook_name), calls[i].plugin>>
             /\ n > 0 => ret.result["last"] = <<CallbackFor(ret.hook_name), calls[n].plugin>>
    /\ ret.op = "process" =>
         LET direct == execute_hook(registry, config, HookFor(ret.method), ret.data)
         IN  /\ ret.result = direct.result
             /\ ret.calls = direct.calls
             /\ \A i \in DOMAIN ret.calls :
                  ret.calls[i].callback = CallbackFor(HookFor(ret.method))

\* process_generate_response ran on_generate_response of the one enabled
\* plugin of two registered ones
C30_Witness ==
    /\ ret.op = "process"
    /\ ret.method = "process_generate_response"
    /\ Len(registry.plugins) = 2
    /\ Len(ret.calls) = 1
    /\ ret.result["last"] = <<"on_generate_response", ret.calls[1].plugin>>


\* C31: unregister(name) with a name that is not registered raises no error
\* and leaves the name index, all four hook chains and the schema-extension
\* map unchanged (and the plugins' configurations with them).
C31_UnregisterAbsentNoOp ==
    [][(ret'.op = "unregister" /\ ret'.plugin = None) =>
          /\ ~HasKey(registry.plugins, ret'.name)
          /\ registry'.plugins = registry.plugins
          /\ \A h \in HookNames : registry'.hooks[h] = registry.hooks[h]
          /\ registry'.schema_extensions = registry.schema_extensions
          /\ config' = config]_vars

\* a name that is not registered was unregistered while a plugin of the
\* other name, which declares schema fields, is registered
C31_Witness ==
    /\ ret.op = "unregister"
    /\ ret.plugin = None
    /\ Len(registry.plugins) = 1
    /\ registry.plugins[1][1] # ret.name
    /\ Len(registry.hooks["agent_init"]) = 1
    /\ get_schema_extensions(registry, "GenerateRequest") # EmptyDict


\* C32: a manager constructed on a fresh registry of its own is isolated from
\* the process-wide registry: none of its operations (register_plugin,
\* enable/disable, set_plugin_priority, the process_* hooks, initialize_all,
\* shutdown_all) changes the global registry's name index, hook chains or
\* schema-extension map, and its hooks and bulk calls invoke only plugins of
\* its own registry, never one that is registered only globally.
C32_FreshManagerIsolated ==
    [][ret'.op = "fresh" =>
          /\ globals.fresh.wraps # globals.registry
          /\ registry'.plugins = registry.plugins
          /\ \A h \in HookNames : registry'.hooks[h] = registry.hooks[h]
          /\ registry'.schema_extensions = registry.schema_extensions
          /\ \A i \in DOMAIN ret'.calls :
                IsRegistered(globals.fresh.registry, ret'.calls[i])
          /\ \A o \in Objs :
                (IsRegistered(registry, o) /\ ~IsRegistered(globals.fresh.registry, o))
                   => \A i \in DOMAIN ret'.calls : ret'.calls[i] # o]_vars
C32_Witness ==
    /\ ret.op = "fresh" /\ ret.call = "process_generate_request"
    /\ ret.calls = <<NumObjs>>
    /\ IsRegistered(registry, 1) /\ IsRegistered(registry, 2)
    /\ get_name(1) = get_name(NumObjs)
    /\ ~config[2].enabled
    /\ list_plugins(globals.fresh.registry) = <<get_name(2), get_name(NumObjs)>>
    /\ get_name(2) \in DOMAIN globals.fresh.plugin_configs


\* C33: the persisted map and the live configuration agree: in every reachable
\* state, for every registered plugin whose name has an entry in the
\* persisted-configuration map, each of the keys enabled and priority present
\* in the entry has the value of the plugin's live configuration.
C33_PersistedAgreesWithLive ==
    \A o \in Objs :
       (IsRegistered(registry, o) /\ get_name(o) \in DOMAIN plugin_configs) =>
          \A key \in {"enabled", "priority"} \cap DOMAIN plugin_configs[get_name(o)] :
             plugin_configs[get_name(o)][key] = config[o][key]


\* C34: a register_plugin call that fails because the name is already
\* registered leaves the manager unchanged: the persisted-configuration entry
\* of the name is as before the call (present or absent alike), and the live
\* configuration of the plugin already registered under the name is
\* unchanged.
C34_FailedRegisterPluginNoChange ==
    [][(ret'.op = "register_plugin" /\ ret'.raised) =>
          LET name == get_name(ret'.plugin)
              held == get_plugin(registry, name)
          IN  /\ (name \in DOMAIN plugin_configs') = (name \in DOMAIN plugin_configs)
              /\ name \in DOMAIN plugin_configs =>
                    plugin_configs'[name] = plugin_configs[name]
              /\ config'[held] = config[held]]_vars


\* C35: enable_plugin, disable_plugin and set_plugin_priority are
\* all-or-nothing with respect to persistence: when save_config() fails, the
\* live configuration of the plugin and the persisted-configuration map are
\* as before the call.
C35_ToggleAllOrNothing ==
    [][(ret'.op = "save_denied" /\ ret'.raised) =>
          /\ config'[ret'.plugin] = config[ret'.plugin]
          /\ plugin_configs' = plugin_configs]_vars


\* the plugins of a chain that are enabled, in chain order
EnabledOf(chain) ==
    LET on == SelectSeq(chain, LAMBDA e : config[e[2]].enabled)
    IN  [i \in DOMAIN on |-> on[i][2]]
\* the place in seq of its first plugin in set S, 0 if none
FirstIn(seq, S) ==
    IF \E i \in DOMAIN seq : seq[i] \in S
    THEN CHOOSE i \in DOMAIN seq : seq[i] \in S /\ \A j \in 1..(i - 1) : seq[j] \notin S
    ELSE 0

\* C36: when the hook callback of an enabled plugin raises during
\* execute_hook, the exception reaches the caller of execute_hook, and of the
\* process_* method passing through to it, and the callbacks of the plugins
\* after it in the chain are not invoked: the call invokes the enabled plugins
\* of the chain in order up to and including the first one that raises.  A
\* call in which no invoked callback raises returns normally.
C36_CallbackFailurePropagates ==
    ret.op = "hook_failing" =>
       LET enabled == IF ret.hook_name \in HookNames
                      THEN EnabledOf(registry.hooks[ret.hook_name]) ELSE <<>>
           first == FirstIn(enabled, ret.raising)
       IN  IF first = 0
           THEN ~ret.raised /\ ret.calls = enabled
           ELSE ret.raised /\ ret.calls = SubSeq(enabled, 1, first)
C36_Witness ==
    /\ ret.op = "hook_failing"
    /\ ret.via = "process_generate_request"
    /\ ret.raised
    /\ Len(ret.calls) = 1
    /\ Len(registry.hooks["generate_request"]) = 2
    /\ \A o \in RegisteredObjs : config[o].enabled


\* C38: when the plugin set of the registry is changed (a register or an
\* unregister by another task or by a plugin's own shutdown()) while
\* shutdown_all() is suspended inside one plugin's shutdown(), shutdown_all()
\* still returns normally and has invoked shutdown() on every plugin that was
\* registered when it started and is still registered.
C38_ShutdownSurvivesRegistryChange ==
    (ret.op = "shutdown_walk" /\ ret.finished /\ ret.changes > 0) =>
       /\ ~ret.raised
       /\ \A o \in ret.began :
             IsRegistered(registry, o) => \E i \in DOMAIN ret.calls : ret.calls[i] = o


\* C37: a chain traversal is atomic with respect to other tasks: execute_hook
\* has no suspension point between reading the chain and returning, so no
\* register, unregister, enable, disable or other execute_hook of another
\* task runs between its start and its return, and the plugins it invokes are
\* exactly the plugins of the chain that were enabled at the start of the
\* call, in chain order.
C37_TraversalAtomic ==
    ret.op = "traversal" =>
       /\ ~ret.switched
       /\ ret.calls = SubSeq(ret.expected, 1, Len(ret.calls))
       /\ ret.finished => ret.calls = ret.expected
       /\ ret.expected = EnabledOf(registry.hooks[ret.hook_name])
C37_Witness ==
    /\ ret.op = "traversal"
    /\ ret.finished
    /\ Len(ret.calls) = 1
    /\ Len(registry.hooks[ret.hook_name]) = 2
    /\ \E o \in RegisteredObjs : ~config[o].enabled


\* C39: unregister(name) leaves the schema-extension map unchanged: the fields
\* the plugin contributed at registration are still returned by
\* get_schema_extensions(model) after it is unregistered, with the plugin's
\* specification, and a field it overwrote is not restored to the earlier
\* plugin's specification.
C39_UnregisterKeepsSchema ==
    [][(ret'.op = "unregister" /\ ret'.plugin # None) =>
          /\ registry'.schema_extensions = registry.schema_extensions
          /\ \A m \in Models :
                /\ get_schema_extensions(registry', m) = get_schema_extensions(registry, m)
                /\ \A f \in DOMAIN DeclaredOn(ret'.plugin, m) :
                      /\ f \in DOMAIN get_schema_extensions(registry', m)
                      /\ get_schema_extensions(registry, m)[f] = FieldSpec(ret'.plugin, f)
                            => get_schema_extensions(registry', m)[f] = FieldSpec(ret'.plugin, f)]_vars
\* the removed plugin had overwritten the field "shared" of a plugin that is
\* still registered, and the field still carries the removed plugin's
\* specification
C39_Witness ==
    /\ ret.op = "unregister"
    /\ ret.plugin # None
    /\ ~IsRegistered(registry, ret.plugin)
    /\ "GenerateRequest" \in DOMAIN registry.schema_extensions
    /\ get_schema_extensions(registry, "GenerateRequest")["shared"]
          = FieldSpec(ret.plugin, "shared")
    /\ OwnField(ret.plugin) \in DOMAIN get_schema_extensions(registry, "GenerateRequest")
    /\ \E p1 \in RegisteredObjs :
          /\ "shared" \in DOMAIN DeclaredOn(p1, "GenerateRequest")
          /\ OwnField(p1) \in DOMAIN get_schema_extensions(registry, "GenerateRequest")


====
